---- MODULE Spec2Model ----
(***************************************************************************)
(* RuralMarkNet: the cart / checkout / payment / order-status workflow.    *)
(*                                                                         *)
(* The persistent state is the rows of the Product, Order, OrderItem,      *)
(* Payment, Delivery and AuditLog tables, each farmer's accepted payment   *)
(* methods, each customer's session cart reference and the configured      *)
(* webhook secret.  Every action is one request handler (or one model      *)
(* method called outside a view), taken as a whole, with the post_save     *)
(* signal of Order included in every Order.save.  Handlers that write in   *)
(* several statements also have an action for the run that fails between   *)
(* them, and cart resolution also runs statement by statement in two       *)
(* requests at once.  Money is in whole currency units, rows are addressed *)
(* by primary key = position in the table's sequence.                      *)
(***************************************************************************)
EXTENDS Integers, Sequences, FiniteSets, TLC

VARIABLES
    products,                   \* Product rows: pk -> [farmer, price, inventory, available]
    accepted_payment_methods,   \* User.accepted_payment_methods of each farmer (<<>> = unset)
    orders,                     \* Order rows, pk = index
    items,                      \* OrderItem rows of each order, in pk order
    payments,                   \* Payment rows, pk = index
    deliveries,                 \* Delivery rows (one per order at most)
    audit,                      \* AuditLog rows, oldest first
    session,                    \* request.session["cart_id"] of each customer (0 = absent)
    webhook_secret,             \* settings.STRIPE_WEBHOOK_SECRET
    resolving,                  \* the cart resolutions in flight, by request
    accounts,                   \* User rows of the sign-up flow: [exists, is_active, email_verified]
    tokens,                     \* EmailVerificationToken rows, token = index
    now,                        \* timezone.now()
    auth,                       \* the user the browser's session is logged in as
    calls,                      \* the handlers running statement by statement, by request
    response                    \* the response of the last request

\* The accounts, their verification tokens, the clock and the login.
identity == <<accounts, tokens, now, auth>>

vars == <<products, accepted_payment_methods, orders, items, payments,
          deliveries, audit, session, webhook_secret, resolving, identity,
          calls, response>>

db == <<products, accepted_payment_methods, orders, items, payments,
        deliveries, audit, session, webhook_secret, resolving, identity,
        calls>>

----------------------------------------------------------------------------
\* Bounds of the model.
MaxOrders == 2
MaxPayments == 2
MaxAudit == 3
MaxInventory == 2
MaxQuantity == 3

----------------------------------------------------------------------------
\* Users and their roles.
Customers == {"c1", "c2"}
Farmers == {"f1", "f2"}
Admins == {"admin"}
Users == Customers \cup Farmers \cup Admins

NoUser == "none"

is_customer(u) == u \in Customers
is_farmer(u) == u \in Farmers
is_staff(u) == u \in Admins

ProductIds == {1, 2}

\* Order.Status, Order.PaymentStatus, Payment.Providers, Payment.Status.
OrderStatuses == {"cart", "pending", "confirmed", "shipped", "delivered", "cancelled"}
PaymentStatuses == {"unpaid", "paid", "refunded", "failed"}
AllChoices == <<"stripe", "paypal", "cod">>

SeqToSet(s) == {s[i] : i \in DOMAIN s}

DefaultCodes == SeqToSet(AllChoices)

Max(a, b) == IF a >= b THEN a ELSE b
Min(a, b) == IF a <= b THEN a ELSE b

----------------------------------------------------------------------------
\* Responses.  Every request overwrites the last response.
Resp(view, code, msg) ==
    [view |-> view, code |-> code, msg |-> msg, order |-> 0,
     choices |-> <<>>, using_default |-> FALSE]

FormResp(view, o, msg, pc) ==
    [view |-> view, code |-> 200, msg |-> msg, order |-> o,
     choices |-> pc.allowed, using_default |-> pc.using_default]

NoResponse == Resp("none", 0, "")

----------------------------------------------------------------------------
\* Order and OrderItem (orders/models.py).

NewOrder(u) ==
    [customer |-> u, status |-> "cart", payment_status |-> "unpaid",
     total_amount |-> 0, delivery_address |-> "", scheduled_date |-> "",
     scheduled_window |-> "", notes |-> ""]

\* order.items: the rows of the order (no rows for a pk that names no order).
ItemsOfOrder(its, o) == IF o \in DOMAIN its THEN its[o] ELSE <<>>

HasItem(its, o, p) == \E i \in DOMAIN ItemsOfOrder(its, o) : its[o][i].product = p

ItemOf(its, o, p) == its[o][CHOOSE i \in DOMAIN its[o] : its[o][i].product = p]

\* item.quantity of the row of (order, product), or of a fresh item: 0.
QuantityOf(its, o, p) == IF HasItem(its, o, p) THEN ItemOf(its, o, p).quantity ELSE 0

RECURSIVE SumLineTotals(_)
SumLineTotals(its) ==
    IF its = <<>> THEN 0 ELSE Head(its).line_total + SumLineTotals(Tail(its))

\* Order.recalculate_total: aggregate Sum("line_total") over the order's items.
RecalculateTotal_KeepsOld(ords, its, o) == ords

RecalculateTotal(ords, its, o) ==
    [ords EXCEPT ![o].total_amount = SumLineTotals(ItemsOfOrder(its, o))]

\* post_save receiver of Order: a delivery for an order that is placed.
\* The receiver creating every delivery with no farmer assigned.
EnsureDeliveryExists_Unassigned(dels, ords, its, o) ==
    IF /\ ords[o].status \in {"pending", "confirmed"}
       /\ ~ \E d \in dels : d.order = o
    THEN dels \cup {[order |-> o, status |-> "pending", driver_name |-> "",
                     assigned_farmer |-> NoUser]}
    ELSE dels

EnsureDeliveryExists(dels, ords, its, o) ==
    IF /\ ords[o].status \in {"pending", "confirmed"}
       /\ ~ \E d \in dels : d.order = o
    THEN dels \cup
         {[order |-> o, status |-> "pending", driver_name |-> "",
           assigned_farmer |->
               IF ItemsOfOrder(its, o) # <<>>
               THEN products[Head(ItemsOfOrder(its, o)).product].farmer
               ELSE NoUser]}
    ELSE dels

\* OrderItem.save storing the unit price as the line total.
ItemRow_LineTotalIsPrice(o, p, quantity, price) ==
    [product |-> p, quantity |-> quantity, price |-> price, line_total |-> price]

\* The row OrderItem.save writes: line_total = quantity * price.
ItemRow(o, p, quantity, price) ==
    [product |-> p, quantity |-> quantity, price |-> price,
     line_total |-> quantity * price]

\* OrderItem.save's INSERT or UPDATE of the row of (order, product).
WriteItem(its, o, p, quantity, price) ==
    IF HasItem(its, o, p)
    THEN [its EXCEPT ![o] = [i \in DOMAIN its[o] |->
            IF its[o][i].product = p
            THEN ItemRow(o, p, quantity, price) ELSE its[o][i]]]
    ELSE [its EXCEPT ![o] = Append(@, ItemRow(o, p, quantity, price))]

RemoveItem(its, o, p) ==
    [its EXCEPT ![o] = SelectSeq(@, LAMBDA it : it.product # p)]

\* OrderItem.save on the tables: the row, then order.recalculate_total(), whose
\* Order.save fires the post_save receiver.
ItemSaveEffect(ords, its, dels, o, p, quantity, price) ==
    LET its2 == WriteItem(its, o, p, quantity, price)
        ords2 == RecalculateTotal(ords, its2, o)
    IN [orders |-> ords2, items |-> its2,
        deliveries |-> EnsureDeliveryExists(dels, ords2, its2, o)]

ItemDeleteEffect(ords, its, dels, o, p) ==
    LET its2 == RemoveItem(its, o, p)
        ords2 == RecalculateTotal(ords, its2, o)
    IN [orders |-> ords2, items |-> its2,
        deliveries |-> EnsureDeliveryExists(dels, ords2, its2, o)]

\* An Order row saved directly in a status (the admin site's add form of
\* orders/admin.py, the tests' Order.objects.create): no items yet.
OrderCreate(u, status) ==
    /\ u \in Customers
    /\ status \in OrderStatuses
    /\ Len(orders) < MaxOrders
    /\ orders' = Append(orders, [NewOrder(u) EXCEPT !.status = status])
    /\ deliveries' = EnsureDeliveryExists(deliveries, orders', items, Len(orders) + 1)
    /\ response' = [Resp("Order.objects.create", 0, "") EXCEPT !.order = Len(orders) + 1]
    /\ UNCHANGED <<products, accepted_payment_methods, items, payments, audit,
                   session, webhook_secret, resolving, identity, calls>>

\* OrderItem.save called on a model instance outside add_to_cart (the admin
\* site's inline, the tests' order.items.create), at the product's price.
OrderItemSave(o, p, quantity) ==
    /\ o \in DOMAIN orders
    /\ \E e \in {ItemSaveEffect(orders, items, deliveries, o, p, quantity,
                                 products[p].price)} :
          /\ orders' = e.orders
          /\ items' = e.items
          /\ deliveries' = e.deliveries
    /\ response' = [Resp("OrderItem.save", 0, "") EXCEPT !.order = o]
    /\ UNCHANGED <<products, accepted_payment_methods, payments, audit,
                   session, webhook_secret, resolving, identity, calls>>

OrderItemDelete(o, p) ==
    /\ o \in DOMAIN orders
    /\ HasItem(items, o, p)
    /\ \E e \in {ItemDeleteEffect(orders, items, deliveries, o, p)} :
          /\ orders' = e.orders
          /\ items' = e.items
          /\ deliveries' = e.deliveries
    /\ response' = [Resp("OrderItem.delete", 0, "") EXCEPT !.order = o]
    /\ UNCHANGED <<products, accepted_payment_methods, payments, audit,
                   session, webhook_secret, resolving, identity, calls>>

\* OrderItem.save ended by a failure after super().save(): the row is
\* committed (autocommit, no enclosing transaction), recalculate_total, which
\* alone is atomic, never ran or was rolled back.
OrderItemSaveFails(o, p, quantity) ==
    /\ o \in DOMAIN orders
    /\ items' = WriteItem(items, o, p, quantity, products[p].price)
    /\ response' = [Resp("OrderItem.save", 500, "") EXCEPT !.order = o]
    /\ UNCHANGED <<products, accepted_payment_methods, orders, payments, deliveries,
                   audit, session, webhook_secret, resolving, identity, calls>>

\* OrderItem.delete ended by a failure after super().delete().
OrderItemDeleteFails(o, p) ==
    /\ o \in DOMAIN orders
    /\ HasItem(items, o, p)
    /\ items' = RemoveItem(items, o, p)
    /\ response' = [Resp("OrderItem.delete", 500, "") EXCEPT !.order = o]
    /\ UNCHANGED <<products, accepted_payment_methods, orders, payments, deliveries,
                   audit, session, webhook_secret, resolving, identity, calls>>

----------------------------------------------------------------------------
\* Cart resolution (orders/views.py, _get_or_create_cart).

CartFound_IgnoresSession(ords, sess, u) == FALSE

CartFound_AnyOwner(ords, sess, u) ==
    /\ sess[u] # 0
    /\ sess[u] \in DOMAIN ords
    /\ ords[sess[u]].status = "cart"

CartFound(ords, sess, u) ==
    /\ sess[u] # 0
    /\ sess[u] \in DOMAIN ords
    /\ ords[sess[u]].customer = u
    /\ ords[sess[u]].status = "cart"

GetOrCreateCart(ords, sess, u) ==
    IF CartFound(ords, sess, u)
    THEN [cart |-> sess[u], orders |-> ords, session |-> sess, created |-> FALSE]
    ELSE [cart |-> Len(ords) + 1,
          orders |-> Append(ords, NewOrder(u)),
          session |-> [sess EXCEPT ![u] = Len(ords) + 1],
          created |-> TRUE]

\* Two requests of one session running _get_or_create_cart at the same time.
\* A request reads request.session, queries the cart, inserts a row when the
\* query found none, and has its session saved when its response is sent.
Requests == {1, 2}

NoResolution == [pc |-> "idle", user |-> NoUser, order_id |-> 0, cart |-> 0]

\* order_id = request.session.get("cart_id")
ResolveBegin(r, u) ==
    /\ resolving[r].pc = "idle"
    /\ resolving' = [resolving EXCEPT ![r] =
                        [pc |-> "lookup", user |-> u, order_id |-> session[u],
                         cart |-> 0]]
    /\ UNCHANGED <<products, accepted_payment_methods, orders, items, payments,
                   deliveries, audit, session, webhook_secret, response,
                   identity, calls>>

\* Order.objects.get(pk=order_id, customer=request.user, status=CART): the
\* cart is returned, or Order.DoesNotExist (or no order_id) leads to the insert.
ResolveLookup(r) ==
    /\ resolving[r].pc = "lookup"
    /\ IF CartFound(orders,
                    [session EXCEPT ![resolving[r].user] = resolving[r].order_id],
                    resolving[r].user)
       THEN /\ resolving' = [resolving EXCEPT ![r] = NoResolution]
            /\ response' = [Resp("cart", 200, "found")
                               EXCEPT !.order = resolving[r].order_id]
       ELSE /\ resolving' = [resolving EXCEPT ![r].pc = "create"]
            /\ UNCHANGED response
    /\ UNCHANGED <<products, accepted_payment_methods, orders, items, payments,
                   deliveries, audit, session, webhook_secret, identity, calls>>

\* cart = Order.objects.create(customer=request.user)
ResolveCreate(r) ==
    /\ resolving[r].pc = "create"
    /\ Len(orders) <= MaxOrders
    /\ orders' = Append(orders, NewOrder(resolving[r].user))
    /\ resolving' = [resolving EXCEPT ![r].pc = "store", ![r].cart = Len(orders) + 1]
    /\ UNCHANGED <<products, accepted_payment_methods, items, payments, deliveries,
                   audit, session, webhook_secret, response, identity, calls>>

\* request.session["cart_id"] = cart.pk, saved with the response.
ResolveStore(r) ==
    /\ resolving[r].pc = "store"
    /\ session' = [session EXCEPT ![resolving[r].user] = resolving[r].cart]
    /\ resolving' = [resolving EXCEPT ![r] = NoResolution]
    /\ response' = [Resp("cart", 200, "created") EXCEPT !.order = resolving[r].cart]
    /\ UNCHANGED <<products, accepted_payment_methods, orders, items, payments,
                   deliveries, audit, webhook_secret, identity, calls>>

\* Room for the Order row that cart resolution may insert.
CartRoom(u) == CartFound(orders, session, u) \/ Len(orders) < MaxOrders

----------------------------------------------------------------------------
\* add_to_cart (orders/views.py).

\* The raw "quantity" parameter: text that int() accepts or rejects.
RawQuantities ==
    {[valid |-> FALSE, n |-> 0]} \cup {[valid |-> TRUE, n |-> n] : n \in {0, 1, MaxQuantity}}

\* int(raw_quantity), 1 on TypeError/ValueError, and the floor of 1.
RequestedQuantity(raw) == IF raw.valid THEN Max(raw.n, 1) ELSE 1

MaxAdditional(inventory, current_quantity) == Max(inventory - current_quantity, 0)

AddQuantity_Uncapped(quantity, max_additional) == quantity

AddQuantity(quantity, max_additional) == Min(quantity, max_additional)

\* The outcome of add_to_cart for a customer and an available product, c being
\* the resolved cart.
AddToCartEffect(c, its, dels, p, raw) ==
    LET quantity == RequestedQuantity(raw)
        current_quantity == QuantityOf(its, c.cart, p)
        max_additional == MaxAdditional(products[p].inventory, current_quantity)
        add_quantity == AddQuantity(quantity, max_additional)
        unchanged == [orders |-> c.orders, items |-> its, deliveries |-> dels]
    IN IF products[p].inventory <= 0
       THEN [db |-> unchanged, msg |-> "out of stock"]
       ELSE IF max_additional <= 0
       THEN [db |-> unchanged, msg |-> "maximum available quantity"]
       ELSE [db |-> ItemSaveEffect(c.orders, its, dels, c.cart, p,
                                   current_quantity + add_quantity, products[p].price),
             msg |-> IF add_quantity < quantity THEN "added, only some available"
                     ELSE "added"]

AddToCart(u, p, raw) ==
    /\ u \in Users
    /\ p \in ProductIds
    /\ is_customer(u) /\ products[p].available => CartRoom(u)
    /\ IF ~products[p].available
       THEN /\ response' = Resp("add_to_cart", 404, "")
            /\ UNCHANGED db
       ELSE IF ~is_customer(u)
       THEN /\ response' = Resp("add_to_cart", 302, "Only customers can modify carts.")
            /\ UNCHANGED db
       ELSE \E c \in {GetOrCreateCart(orders, session, u)} :
            \E e \in {AddToCartEffect(c, items, deliveries, p, raw)} :
            /\ session' = c.session
            /\ orders' = e.db.orders
            /\ items' = e.db.items
            /\ deliveries' = e.db.deliveries
            /\ response' = [Resp("add_to_cart", 302, e.msg) EXCEPT !.order = c.cart]
            /\ UNCHANGED <<products, accepted_payment_methods, payments, audit,
                           webhook_secret, resolving, identity, calls>>

----------------------------------------------------------------------------
\* Payment providers a farmer accepts and the choices offered for an order.

\* get_accepted_payment_methods returning the configured list as it is.
GetAcceptedPaymentMethods_UnsetIsEmpty(f) == accepted_payment_methods[f]

\* User.get_accepted_payment_methods: the configured codes that are valid, or
\* every provider when nothing is configured.
GetAcceptedPaymentMethods(f) ==
    IF accepted_payment_methods[f] # <<>>
    THEN SelectSeq(accepted_payment_methods[f], LAMBDA code : code \in DefaultCodes)
    ELSE AllChoices

\* The farmers of the products among the order's items.
FarmersOfOrder(its, o) ==
    {products[ItemsOfOrder(its, o)[i].product].farmer : i \in DOMAIN ItemsOfOrder(its, o)}

\* for farmer in farmers: allowed_codes &= set(farmer.get_accepted_payment_methods())
RECURSIVE IntersectAccepted(_, _)
IntersectAccepted_LastFarmerOnly(allowed_codes, farmers) ==
    IF farmers = {} THEN allowed_codes
    ELSE SeqToSet(GetAcceptedPaymentMethods(CHOOSE f \in farmers : TRUE))

IntersectAccepted(allowed_codes, farmers) ==
    IF farmers = {} THEN allowed_codes
    ELSE LET f == CHOOSE x \in farmers : TRUE
         IN IntersectAccepted(allowed_codes \cap SeqToSet(GetAcceptedPaymentMethods(f)),
                              farmers \ {f})

\* CheckoutView._prepare_payment_choices and PaymentInitView._prepare_provider_choices.
PreparePaymentChoices(its, o) ==
    LET allowed_codes == IntersectAccepted(DefaultCodes, FarmersOfOrder(its, o))
    IN IF allowed_codes = {}
       THEN [using_default |-> TRUE, allowed |-> AllChoices, restricted |-> <<>>]
       ELSE [using_default |-> FALSE,
             allowed |-> SelectSeq(AllChoices, LAMBDA code : code \in allowed_codes),
             restricted |-> SelectSeq(AllChoices, LAMBDA code : code \notin allowed_codes)]

----------------------------------------------------------------------------
\* Checkout (orders/views.py CheckoutView, orders/forms.py DeliveryScheduleForm).

ScheduledWindows == {"morning", "afternoon", "evening"}

FilledForm ==
    [delivery_address |-> "12 Market Street", scheduled_date |-> "2026-01-15",
     scheduled_window |-> "morning", notes |-> "Leave at the doorstep"]

\* The submissions: a filled form and one that leaves the address blank.
CheckoutForms == {FilledForm, [FilledForm EXCEPT !.delivery_address = ""]}

\* The submitted provider: a gateway, cash on delivery, and a value that is no
\* provider.
ProviderInputs == {"stripe", "cod", "bitcoin"}

\* DeliveryScheduleForm.__init__: the payment_provider choices.
FormProviderCodes(allowed_providers) ==
    IF allowed_providers # <<>> THEN SeqToSet(allowed_providers) ELSE DefaultCodes

\* ChoiceField validation and clean_payment_provider.
ProviderAccepted_AnyKnown(provider, allowed_providers) == provider \in DefaultCodes

ProviderAccepted(provider, allowed_providers) ==
    provider \in FormProviderCodes(allowed_providers)

\* DeliveryScheduleForm.is_valid.
CheckoutFormIsValid(form, provider, allowed_providers) ==
    /\ form.delivery_address # ""
    /\ form.scheduled_date # ""
    /\ form.scheduled_window \in ScheduledWindows
    /\ ProviderAccepted(provider, allowed_providers)

\* form_valid, lines 170-175: the delivery details and status pending.
PersistCheckout_StaysCart(order, form) ==
    [order EXCEPT !.delivery_address = form.delivery_address,
                  !.scheduled_date = form.scheduled_date,
                  !.scheduled_window = form.scheduled_window,
                  !.notes = form.notes]

PersistCheckout(order, form) ==
    [order EXCEPT !.delivery_address = form.delivery_address,
                  !.scheduled_date = form.scheduled_date,
                  !.scheduled_window = form.scheduled_window,
                  !.notes = form.notes,
                  !.status = "pending"]

\* Payment.objects.create(order, provider, amount, currency).
NewPayment(o, provider, amount) ==
    [order |-> o, provider |-> provider, status |-> "initiated", amount |-> amount,
     currency |-> "INR", transaction_id |-> "", raw_response |-> <<>>]

\* The cash-on-delivery branch on the order: pending becomes confirmed and a
\* payment_status other than unpaid becomes unpaid.
ConfirmCashOnDelivery_MarksPaid(order) ==
    [order EXCEPT !.status = IF @ = "pending" THEN "confirmed" ELSE @,
                  !.payment_status = "paid"]

ConfirmCashOnDelivery(order) ==
    [order EXCEPT !.status = IF @ = "pending" THEN "confirmed" ELSE @,
                  !.payment_status = "unpaid"]

\* str(order.total_amount): the decimal rendered as text.
DecimalText(d) == <<"text", d>>

\* AuditLog.record(user, action, instance, metadata).
AuditEntry(u, action, model_name, object_id, metadata) ==
    [user |-> u, action |-> action, model_name |-> model_name,
     object_id |-> object_id, metadata |-> metadata]

\* cls.objects.create(...): the entry is inserted after the existing rows.
AuditLogCreate_ReplacesLatest(aud, entry) ==
    IF aud = <<>> THEN <<entry>> ELSE [aud EXCEPT ![Len(aud)] = entry]

AuditLogCreate(aud, entry) == Append(aud, entry)

\* CheckoutView.form_valid on the tables.
CheckoutFormValid(ords, its, dels, pays, aud, cart, u, form, provider) ==
    LET pending == PersistCheckout(ords[cart], form)
        ords1 == [ords EXCEPT ![cart] = pending]
        dels1 == EnsureDeliveryExists(dels, ords1, its, cart)
        aud1 == AuditLogCreate(aud, AuditEntry(u, "Checkout completed", "order", cart,
                    [scheduled_date |-> form.scheduled_date,
                     total_amount |-> DecimalText(pending.total_amount),
                     payment_provider |-> provider]))
        pays1 == Append(pays, NewPayment(cart, provider, pending.total_amount))
        ords2 == [ords1 EXCEPT ![cart] = ConfirmCashOnDelivery(pending)]
    IN IF provider = "cod"
       THEN [orders |-> ords2,
             deliveries |-> EnsureDeliveryExists(dels1, ords2, its, cart),
             payments |-> pays1,
             audit |-> AuditLogCreate(aud1, AuditEntry(u, "Cash on delivery selected", "order",
                                  cart, [payment_id |-> Len(pays1)])),
             msg |-> "Order confirmed. Cash on delivery has been recorded."]
       ELSE [orders |-> ords1, deliveries |-> dels1, payments |-> pays1,
             audit |-> aud1, msg |-> "Redirecting for secure payment..."]

\* CheckoutView.dispatch: self.cart.items.exists().
CartHasItems_Always(its, cart) == TRUE

CartHasItems(its, cart) == ItemsOfOrder(its, cart) # <<>>

\* The errors of an invalid submission, the provider's first.
CheckoutFormError(form, provider, allowed_providers) ==
    IF ~ProviderAccepted(provider, allowed_providers)
    THEN "Selected payment method is not available for this order."
    ELSE "This field is required."

\* Audit rows a valid submission writes.
CheckoutAuditRows(provider) == IF provider = "cod" THEN 2 ELSE 1

\* GET of the checkout page.
CheckoutGet(u) ==
    /\ u \in Customers
    /\ CartRoom(u)
    /\ \E c \in {GetOrCreateCart(orders, session, u)} :
          /\ orders' = c.orders
          /\ session' = c.session
          /\ response' =
                IF ~CartHasItems(items, c.cart)
                THEN [Resp("checkout", 302, "Your cart is empty.") EXCEPT !.order = c.cart]
                ELSE FormResp("checkout", c.cart, "", PreparePaymentChoices(items, c.cart))
    /\ UNCHANGED <<products, accepted_payment_methods, items, payments, deliveries,
                   audit, webhook_secret, resolving, identity, calls>>

\* POST of the checkout form.
CheckoutPost(u, form, provider) ==
    /\ u \in Customers
    /\ CartRoom(u)
    /\ \E c \in {GetOrCreateCart(orders, session, u)} :
       \E pc \in {PreparePaymentChoices(items, c.cart)} :
          IF ~CartHasItems(items, c.cart)
          THEN /\ orders' = c.orders
               /\ session' = c.session
               /\ response' = [Resp("checkout", 302, "Your cart is empty.")
                                  EXCEPT !.order = c.cart]
               /\ UNCHANGED <<payments, deliveries, audit, identity, calls>>
          ELSE IF ~CheckoutFormIsValid(form, provider, pc.allowed)
          THEN /\ response' = FormResp("checkout", c.cart,
                                           CheckoutFormError(form, provider, pc.allowed), pc)
               /\ UNCHANGED <<orders, session, payments, deliveries, audit,
                              identity, calls>>
          ELSE /\ Len(payments) < MaxPayments
               /\ Len(audit) + CheckoutAuditRows(provider) <= MaxAudit
               /\ \E e \in {CheckoutFormValid(c.orders, items, deliveries, payments,
                                              audit, c.cart, u, form, provider)} :
                     /\ orders' = e.orders
                     /\ deliveries' = e.deliveries
                     /\ payments' = e.payments
                     /\ audit' = e.audit
                     /\ response' = [Resp("checkout", 302, e.msg) EXCEPT !.order = c.cart]
               /\ session' = [c.session EXCEPT ![u] = 0]
    /\ UNCHANGED <<products, accepted_payment_methods, items, webhook_secret, resolving,
                   identity, calls>>

\* A valid checkout submission ended by a failure after self.cart.save():
\* the order row (and the delivery its post_save creates) is committed; the
\* failure is in AuditLog.record or in Payment.objects.create, so the audit
\* entry may or may not exist and no Payment does.  SessionMiddleware does not
\* save the session of a response with status 500.
CheckoutPostFails(u, form, provider) ==
    /\ u \in Customers
    /\ CartFound(orders, session, u)
    /\ CartHasItems(items, session[u])
    /\ CheckoutFormIsValid(form, provider,
                           PreparePaymentChoices(items, session[u]).allowed)
    /\ orders' = [orders EXCEPT ![session[u]] = PersistCheckout(@, form)]
    /\ deliveries' = EnsureDeliveryExists(deliveries, orders', items, session[u])
    /\ \/ audit' = audit
       \/ /\ Len(audit) < MaxAudit
          /\ audit' = AuditLogCreate(audit,
                AuditEntry(u, "Checkout completed", "order", session[u],
                    [scheduled_date |-> form.scheduled_date,
                     total_amount |-> DecimalText(orders[session[u]].total_amount),
                     payment_provider |-> provider]))
    /\ response' = [Resp("checkout", 500, "") EXCEPT !.order = session[u]]
    /\ UNCHANGED <<products, accepted_payment_methods, items, payments, session,
                   webhook_secret, resolving, identity, calls>>

\* The profile form of a farmer: accepted_payment_methods = sorted(methods).
ProfileUpdate(f, methods) ==
    /\ f \in Farmers
    /\ methods # <<>>
    /\ SeqToSet(methods) \subseteq DefaultCodes
    /\ accepted_payment_methods' = [accepted_payment_methods EXCEPT ![f] = methods]
    /\ response' = Resp("profile", 302, "Profile updated.")
    /\ UNCHANGED <<products, orders, items, payments, deliveries, audit, session,
                   webhook_secret, resolving, identity, calls>>

----------------------------------------------------------------------------
\* Payment initiation (payments/views.py PaymentInitView, payments/forms.py).

\* The order_qs of dispatch: the user's own order, pending or confirmed.
PayableOrder(u, o) ==
    /\ o \in DOMAIN orders
    /\ orders[o].customer = u
    /\ orders[o].status \in {"pending", "confirmed"}

\* PaymentInitView.form_valid on the tables.
PaymentFormValid(ords, its, dels, pays, aud, o, u, provider) ==
    LET pays1 == Append(pays, NewPayment(o, provider, ords[o].total_amount))
        ords1 == [ords EXCEPT ![o] = ConfirmCashOnDelivery(ords[o])]
    IN IF provider = "cod"
       THEN [orders |-> ords1,
             deliveries |-> EnsureDeliveryExists(dels, ords1, its, o),
             payments |-> pays1,
             audit |-> AuditLogCreate(aud, AuditEntry(u, "Cash on delivery selected", "order",
                                  o, [payment_id |-> Len(pays1)])),
             msg |-> "Cash on delivery confirmed."]
       ELSE [orders |-> ords, deliveries |-> dels, payments |-> pays1, audit |-> aud,
             msg |-> "Redirecting for secure payment..."]

PaymentInitGet(u, o) ==
    /\ u \in Users
    /\ response' =
          IF ~PayableOrder(u, o) THEN Resp("payment_init", 404, "")
          ELSE IF orders[o].payment_status = "paid"
          THEN [Resp("payment_init", 302, "This order is already paid.") EXCEPT !.order = o]
          ELSE FormResp("payment_init", o, "", PreparePaymentChoices(items, o))
    /\ UNCHANGED db

PaymentInitPost(u, o, provider) ==
    /\ u \in Users
    /\ IF ~PayableOrder(u, o)
       THEN /\ response' = Resp("payment_init", 404, "")
            /\ UNCHANGED db
       ELSE IF orders[o].payment_status = "paid"
       THEN /\ response' = [Resp("payment_init", 302, "This order is already paid.")
                               EXCEPT !.order = o]
            /\ UNCHANGED db
       ELSE \E pc \in {PreparePaymentChoices(items, o)} :
            IF provider \notin SeqToSet(pc.allowed)
            THEN /\ response' = FormResp("payment_init", o,
                                             "Select a valid choice.", pc)
                 /\ UNCHANGED db
            ELSE /\ Len(payments) < MaxPayments
                 /\ provider = "cod" => Len(audit) < MaxAudit
                 /\ \E e \in {PaymentFormValid(orders, items, deliveries, payments, audit,
                                               o, u, provider)} :
                       /\ orders' = e.orders
                       /\ deliveries' = e.deliveries
                       /\ payments' = e.payments
                       /\ audit' = e.audit
                       /\ response' = [Resp("payment_init", 302, e.msg) EXCEPT !.order = o]
                 /\ UNCHANGED <<products, accepted_payment_methods, items, session,
                                webhook_secret, resolving, identity, calls>>

----------------------------------------------------------------------------
\* The Stripe webhook (payments/views.py StripeWebhookView, payments/models.py).

\* The data object of an event: its id and metadata.payment_id (0 = no such key).
TransactionIds == {"txn_1"}

WebhookEvents ==
    [id : TransactionIds, payment_id : 0..MaxPayments]

\* Keys a sender may sign with: the empty key and the live secret.
SignerKeys == {"", "whsec_live"}

\* The HMAC of the payload under a key; equal exactly for equal key and payload.
ComputeSignature(payload, key) == <<key, payload>>

NoSignature == <<>>

\* getattr(settings, "STRIPE_WEBHOOK_SECRET", None) is None.
NoneSecret == "<None>"

\* stripe.Webhook.construct_event: accepts the header signed under the secret.
ConstructEvent(payload, sig_header, secret) ==
    sig_header = ComputeSignature(payload, secret)

\* Payment.mark_successful on the payment row.
PaymentMarkedSuccessful_KeepsEveryEvent(payment, transaction_id, payload) ==
    [payment EXCEPT !.transaction_id = transaction_id,
                    !.status = "success",
                    !.raw_response = IF Len(@) < 4 THEN @ \o <<payload.id>> ELSE @]

PaymentMarkedSuccessful(payment, transaction_id, payload) ==
    [payment EXCEPT !.transaction_id = transaction_id,
                    !.status = "success",
                    !.raw_response = <<payload.id, payload.payment_id>>]

\* Payment.mark_successful on the order row.
OrderMarkedPaid(order) == [order EXCEPT !.payment_status = "paid"]

\* Payment.mark_successful on the tables; the order's save fires post_save.
MarkSuccessful(ords, its, dels, pays, pid, transaction_id, payload) ==
    LET o == pays[pid].order
        ords1 == [ords EXCEPT ![o] = OrderMarkedPaid(ords[o])]
    IN [payments |-> [pays EXCEPT ![pid] =
                        PaymentMarkedSuccessful(pays[pid], transaction_id, payload)],
        orders |-> ords1,
        deliveries |-> EnsureDeliveryExists(dels, ords1, its, o)]

\* POST to the webhook URL.  CsrfViewMiddleware runs before the view, which is
\* not csrf_exempt: a request without a matching CSRF token is answered by it.
StripeWebhook(event, sig_header, csrf_token) ==
    IF ~csrf_token
    THEN /\ response' = Resp("webhook", 403, "CSRF verification failed.")
         /\ UNCHANGED db
    ELSE IF webhook_secret = NoneSecret
    THEN /\ response' = Resp("webhook", 403, "Webhook secret not configured")
         /\ UNCHANGED db
    ELSE IF sig_header = NoSignature
    THEN /\ response' = Resp("webhook", 400, "Missing signature header")
         /\ UNCHANGED db
    ELSE IF ~ConstructEvent(event, sig_header, webhook_secret)
    THEN /\ response' = Resp("webhook", 403, "Invalid signature")
         /\ UNCHANGED db
    ELSE IF event.payment_id = 0
    THEN /\ response' = Resp("webhook", 200, "received")
         /\ UNCHANGED db
    ELSE IF event.payment_id \notin DOMAIN payments
    THEN /\ response' = Resp("webhook", 200, "")
         /\ UNCHANGED db
    ELSE /\ \E e \in {MarkSuccessful(orders, items, deliveries, payments,
                                     event.payment_id, event.id, event)} :
               /\ payments' = e.payments
               /\ orders' = e.orders
               /\ deliveries' = e.deliveries
         /\ response' = [Resp("webhook", 200, "received")
                            EXCEPT !.order = payments[event.payment_id].order]
         /\ UNCHANGED <<products, accepted_payment_methods, items, audit, session,
                        webhook_secret, resolving, identity, calls>>

\* A verified event whose mark_successful fails after the payment's save: the
\* payment row is committed, the order's save raised, and the view's
\* "except Exception" answers 200.
StripeWebhookOrderSaveFails(event, sig_header, csrf_token) ==
    /\ csrf_token
    /\ webhook_secret # NoneSecret
    /\ sig_header # NoSignature
    /\ ConstructEvent(event, sig_header, webhook_secret)
    /\ event.payment_id \in DOMAIN payments
    /\ payments' = [payments EXCEPT ![event.payment_id] =
                       PaymentMarkedSuccessful(@, event.id, event)]
    /\ response' = [Resp("webhook", 200, "")
                       EXCEPT !.order = payments[event.payment_id].order]
    /\ UNCHANGED <<products, accepted_payment_methods, orders, items, deliveries,
                   audit, session, webhook_secret, resolving, identity, calls>>

----------------------------------------------------------------------------
\* Order cancellation by the customer (orders/views.py OrderCancelView).

\* get_queryset: the customer's own orders that left the cart.
OwnPlacedOrder_AnyCustomer(u, o) ==
    /\ o \in DOMAIN orders
    /\ orders[o].status # "cart"

OwnPlacedOrder(u, o) ==
    /\ o \in DOMAIN orders
    /\ orders[o].customer = u
    /\ orders[o].status # "cart"

\* The metadata of the audit entry, from the status read before the save.
CancelAuditMetadata_ReadAfterSave(previous, order) ==
    [previous_status |-> order.status,
     new_status |-> order.status,
     total_amount |-> DecimalText(order.total_amount)]

CancelAuditMetadata(previous, order) ==
    [previous_status |-> previous.status,
     new_status |-> order.status,
     total_amount |-> DecimalText(order.total_amount)]

\* OwnerRequiredMixin.dispatch resolves the object (404) before the role test
\* of CustomerRequiredMixin runs.
OrderCancel(u, o) ==
    /\ u \in Users
    /\ IF ~OwnPlacedOrder(u, o)
       THEN /\ response' = Resp("cancel", 404, "")
            /\ UNCHANGED db
       ELSE IF ~is_customer(u) \/ is_staff(u)
       THEN /\ response' = Resp("cancel", 403, "Customer account required.")
            /\ UNCHANGED db
       ELSE IF orders[o].status \in {"delivered", "cancelled"}
       THEN /\ response' = [Resp("cancel", 302, "This order can no longer be cancelled.")
                               EXCEPT !.order = o]
            /\ UNCHANGED db
       ELSE IF orders[o].status = "shipped"
       THEN /\ response' = [Resp("cancel", 302,
                                 "Shipped orders require support assistance to cancel.")
                               EXCEPT !.order = o]
            /\ UNCHANGED db
       ELSE /\ Len(audit) < MaxAudit
            /\ orders' = [orders EXCEPT ![o].status = "cancelled"]
            /\ deliveries' = EnsureDeliveryExists(deliveries, orders', items, o)
            /\ audit' = AuditLogCreate(audit,
                   AuditEntry(u, "Order cancelled by customer", "order", o,
                       CancelAuditMetadata(orders[o], orders'[o])))
            /\ response' = [Resp("cancel", 302, "Your order has been cancelled.")
                               EXCEPT !.order = o]
            /\ UNCHANGED <<products, accepted_payment_methods, items, payments,
                           session, webhook_secret, resolving, identity, calls>>

----------------------------------------------------------------------------
\* Delivery update (deliveries/views.py FarmerDeliveryUpdateView, behind
\* FarmerRequiredMixin and OwnerRequiredMixin of accounts/mixins.py).

AnonymousUser == "anonymous"

\* Delivery.Status.
DeliveryStatuses == {"pending", "scheduled", "in_transit", "completed", "cancelled"}

HasDelivery(dels, d) == \E row \in dels : row.order = d

DeliveryOf(dels, d) == CHOOSE row \in dels : row.order = d

\* DeliveryUpdateForm: status is one of the choices, the driver fields may be blank.
DeliveryFormIsValid(form) == form.status \in DeliveryStatuses

\* form.save(): the submitted fields written to the row.
DeliverySaved(dels, d, form) ==
    {IF row.order = d
     THEN [row EXCEPT !.status = form.status, !.driver_name = form.driver_name]
     ELSE row : row \in dels}

\* OwnerRequiredMixin.dispatch: staff pass the ownership test, others must be
\* the owner_field of the object (assigned_farmer).
PassesOwnership(u, delivery) == is_staff(u) \/ delivery.assigned_farmer = u

\* The view's dispatch chain: OwnerRequiredMixin.dispatch, then the test_func
\* of FarmerRequiredMixin in UserPassesTestMixin.dispatch, then the form.
FarmerDeliveryUpdate(u, d, form) ==
    IF u = AnonymousUser
    THEN /\ response' = Resp("delivery_update", 302, "login")
         /\ UNCHANGED db
    ELSE IF ~HasDelivery(deliveries, d)
    THEN /\ response' = Resp("delivery_update", 404, "")
         /\ UNCHANGED db
    ELSE IF ~PassesOwnership(u, DeliveryOf(deliveries, d))
    THEN /\ response' = [Resp("delivery_update", 302, "Farmer access required.")
                            EXCEPT !.order = d]
         /\ UNCHANGED db
    ELSE IF ~is_farmer(u)
    THEN /\ response' = [Resp("delivery_update", 302, "Farmer access required.")
                            EXCEPT !.order = d]
         /\ UNCHANGED db
    ELSE IF ~DeliveryFormIsValid(form)
    THEN /\ response' = [Resp("delivery_update", 200, "Select a valid choice.")
                            EXCEPT !.order = d]
         /\ UNCHANGED db
    ELSE /\ deliveries' = DeliverySaved(deliveries, d, form)
         /\ response' = [Resp("delivery_update", 302, "Delivery updated.")
                            EXCEPT !.order = d]
         /\ UNCHANGED <<products, accepted_payment_methods, orders, items, payments,
                        audit, session, webhook_secret, resolving, identity,
                        calls>>

----------------------------------------------------------------------------
\* Administrator order update (orders/views.py AdminOrderUpdateView with
\* orders/forms.py AdminOrderUpdateForm).  The form carries status and
\* payment_status; the delivery fields are submitted as displayed.

AdminOrderUpdate(a, o, status, payment_status) ==
    /\ a \in Users
    /\ status \in OrderStatuses
    /\ payment_status \in PaymentStatuses
    /\ IF ~is_staff(a)
       THEN /\ response' = Resp("admin_order_update", 403, "Administrator access required.")
            /\ UNCHANGED db
       ELSE IF ~(o \in DOMAIN orders /\ orders[o].status # "cart")
       THEN /\ response' = Resp("admin_order_update", 404, "")
            /\ UNCHANGED db
       ELSE /\ Len(audit) < MaxAudit
            /\ orders' = [orders EXCEPT ![o].status = status,
                                        ![o].payment_status = payment_status]
            /\ deliveries' = EnsureDeliveryExists(deliveries, orders', items, o)
            /\ audit' = AuditLogCreate(audit,
                   AuditEntry(a, "Order status updated", "order", o,
                       [status |-> status, payment_status |-> payment_status]))
            /\ response' = [Resp("admin_order_update", 302, "Order updated.")
                               EXCEPT !.order = o]
            /\ UNCHANGED <<products, accepted_payment_methods, items, payments,
                           session, webhook_secret, resolving, identity, calls>>

----------------------------------------------------------------------------
\* Bulk inventory update by a farmer (products/forms.py
\* FarmerInventoryUpdateForm, products/views.py FarmerInventoryBulkUpdateView).
\* A payload maps product ids to quantities; a quantity is a JSON value.

\* A JSON value of the payload: an integer, a float (kept in halves, 3 for
\* 1.5), or text that int() rejects.
JsonInt(n) == [type |-> "int", value |-> n]
JsonFloat(halves) == [type |-> "float", value |-> halves]
JsonText == [type |-> "str", value |-> 0]

\* Python's int(): an integer as it is, a float truncated towards zero,
\* ValueError for the text.
PyInt(v) ==
    IF v.type = "int" THEN [ok |-> TRUE, n |-> v.value]
    ELSE IF v.type = "float"
    THEN [ok |-> TRUE,
          n |-> IF v.value >= 0 THEN v.value \div 2 ELSE -((-v.value) \div 2)]
    ELSE [ok |-> FALSE, n |-> 0]

\* clean_inventory_payload: int() accepts every entry and gives 0 or more,
\* every id a product of the farmer.
InventoryPayloadIsValid(f, payload) ==
    /\ \A id \in DOMAIN payload : PyInt(payload[id]).ok /\ PyInt(payload[id]).n >= 0
    /\ \A id \in DOMAIN payload : id \in ProductIds /\ products[id].farmer = f

\* cleaned_ids: the quantities as int() returned them.
CleanedInventory(payload) == [id \in DOMAIN payload |-> PyInt(payload[id]).n]

InventoryBulkUpdate(f, payload) ==
    /\ f \in Farmers
    /\ IF ~InventoryPayloadIsValid(f, payload)
       THEN /\ response' = Resp("inventory_update", 200, "invalid")
            /\ UNCHANGED db
       ELSE /\ Len(audit) < MaxAudit
            /\ products' = [id \in ProductIds |->
                              IF id \in DOMAIN payload
                              THEN [products[id] EXCEPT !.inventory =
                                        CleanedInventory(payload)[id]]
                              ELSE products[id]]
            /\ audit' = AuditLogCreate(audit,
                   AuditEntry(f, "Inventory bulk update", "event", 0,
                       [count |-> Cardinality(DOMAIN payload),
                        products |-> DOMAIN payload]))
            /\ response' = Resp("inventory_update", 302, "Updated inventory.")
            /\ UNCHANGED <<accepted_payment_methods, orders, items, payments,
                           deliveries, session, webhook_secret, resolving,
                           identity, calls>>

----------------------------------------------------------------------------
\* Administrator product edits (products/views.py AdminProductUpdateView and
\* ProductModerationView with products/forms.py ProductModerationForm).

\* ProductForm's validation of the fields the model keeps: inventory is a
\* PositiveIntegerField (0 or more); price is a DecimalField with no validator.
ProductFormIsValid(form) == form.inventory >= 0

\* form.changed_data: the submitted fields that differ from the row.
ChangedFields(product, form) ==
    {f \in {"price", "inventory", "available"} : form[f] # product[f]}

AdminProductUpdate(a, p, form) ==
    /\ a \in Users
    /\ IF ~is_staff(a)
       THEN /\ response' = Resp("admin_product_update", 403,
                                "Administrator access required.")
            /\ UNCHANGED db
       ELSE IF p \notin ProductIds
       THEN /\ response' = Resp("admin_product_update", 404, "")
            /\ UNCHANGED db
       ELSE IF ~ProductFormIsValid(form)
       THEN /\ response' = Resp("admin_product_update", 200, "invalid")
            /\ UNCHANGED db
       ELSE /\ Len(audit) < MaxAudit
            /\ products' = [products EXCEPT ![p].price = form.price,
                                            ![p].inventory = form.inventory,
                                            ![p].available = form.available]
            /\ audit' = AuditLogCreate(audit,
                   AuditEntry(a, "Product updated by administrator", "product", p,
                       [changed_fields |-> ChangedFields(products[p], form)]))
            /\ response' = Resp("admin_product_update", 302, "Product updated.")
            /\ UNCHANGED <<accepted_payment_methods, orders, items, payments,
                           deliveries, session, webhook_secret, resolving,
                           identity, calls>>

\* dispatch fetches the product (404) before the role test.
ProductModeration(a, p, decision) ==
    /\ a \in Users
    /\ IF p \notin ProductIds
       THEN /\ response' = Resp("product_moderation", 404, "")
            /\ UNCHANGED db
       ELSE IF ~is_staff(a)
       THEN /\ response' = Resp("product_moderation", 403,
                                "Administrator access required.")
            /\ UNCHANGED db
       ELSE IF decision \notin {"approve", "reject"}
       THEN /\ response' = Resp("product_moderation", 200, "Select a valid choice.")
            /\ UNCHANGED db
       ELSE /\ Len(audit) < MaxAudit
            /\ products' = [products EXCEPT ![p].available = (decision = "approve")]
            /\ audit' = AuditLogCreate(audit,
                   AuditEntry(a, "Product moderation", "product", p,
                       [decision |-> decision, note |-> "", product_id |-> p]))
            /\ response' = Resp("product_moderation", 302,
                                IF decision = "approve" THEN "approved" ELSE "hidden")
            /\ UNCHANGED <<accepted_payment_methods, orders, items, payments,
                           deliveries, session, webhook_secret, resolving,
                           identity, calls>>

----------------------------------------------------------------------------
\* The farmer's own product edit: the role test, then the farmer's products
\* only (404), then the form, saved as submitted.
ProductUpdate(f, p, form) ==
    /\ f \in Users
    /\ IF ~is_farmer(f)
       THEN /\ response' = Resp("product_update", 403, "Farmer access required.")
            /\ UNCHANGED db
       ELSE IF p \notin ProductIds \/ products[p].farmer # f
       THEN /\ response' = Resp("product_update", 404, "")
            /\ UNCHANGED db
       ELSE IF ~ProductFormIsValid(form)
       THEN /\ response' = Resp("product_update", 200, "invalid")
            /\ UNCHANGED db
       ELSE /\ products' = [products EXCEPT ![p].price = form.price,
                                            ![p].inventory = form.inventory,
                                            ![p].available = form.available]
            /\ response' = Resp("product_update", 302, "Product updated successfully.")
            /\ UNCHANGED <<accepted_payment_methods, orders, items, payments,
                           deliveries, audit, session, webhook_secret, resolving,
                           identity, calls>>

----------------------------------------------------------------------------
\* Accounts: sign-up, email verification and login (accounts/views.py,
\* accounts/models.py EmailVerificationToken, accounts/forms.py LoginForm).

\* The usernames that sign up; the users of the roles above were created by
\* seed_sample_data or createsuperuser.
Registrants == {"r1", "r2"}

Accounts == Registrants \cup Users

\* A row created by create_user (the seed command, createsuperuser, the
\* tests): is_active by the field's default, email_verified by its default.
CreatedUser == [exists |-> TRUE, is_active |-> TRUE, email_verified |-> FALSE]

NoAccount == [exists |-> FALSE, is_active |-> FALSE, email_verified |-> FALSE]

\* The hours of a token's life (EmailVerificationService.EXPIRATION_HOURS).
EXPIRATION_HOURS == 48

\* The clock is read a day apart, up to MaxHours.
DayHours == 24
MaxHours == 96
MaxTokens == 2

\* consumed_at of a token that was not redeemed (None), and of one that was.
Null == <<>>
At(t) == <<t>>

is_consumed(record) == record.consumed_at # Null

is_expired(record, at) == at >= record.expires_at

is_valid_IgnoresExpiry(record, at) == ~is_consumed(record)

is_valid(record, at) == ~is_consumed(record) /\ ~is_expired(record, at)

\* EmailVerificationToken.objects.get(token=token): the token string is the
\* row's position; 0 and other strings (such as "resend") name no row.
TokenExists(toks, t) == t \in DOMAIN toks /\ ~toks[t].deleted

mark_consumed(toks, t, at) ==
    IF is_consumed(toks[t]) THEN toks ELSE [toks EXCEPT ![t].consumed_at = At(at)]

\* issue_for_user: the user's unconsumed tokens are deleted, a new one is made.
issue_for_user(toks, u, at) ==
    Append([t \in DOMAIN toks |->
               IF toks[t].user = u /\ ~is_consumed(toks[t])
               THEN [toks[t] EXCEPT !.deleted = TRUE] ELSE toks[t]],
           [user |-> u, expires_at |-> at + EXPIRATION_HOURS, consumed_at |-> Null,
            deleted |-> FALSE])

\* SignUpView: a free username (UserCreationForm) is saved inactive and
\* unverified, and a token is issued.
SignUp(r) ==
    /\ r \in Accounts
    /\ IF accounts[r].exists
       THEN /\ response' = Resp("signup", 200, "A user with that username already exists.")
            /\ UNCHANGED db
       ELSE /\ Len(tokens) < MaxTokens
            /\ accounts' = [accounts EXCEPT ![r] =
                              [exists |-> TRUE, is_active |-> FALSE,
                               email_verified |-> FALSE]]
            /\ tokens' = issue_for_user(tokens, r, now)
            /\ response' = Resp("signup", 302, "We've sent a verification link.")
            /\ UNCHANGED <<products, accepted_payment_methods, orders, items,
                           payments, deliveries, audit, session, webhook_secret,
                           resolving, now, auth, calls>>

\* ModelBackend.authenticate: the user of the name, the password checked, and
\* user_can_authenticate (is_active); None otherwise.
Authenticates(u, password_ok) ==
    accounts[u].exists /\ password_ok /\ accounts[u].is_active

\* AuthenticationForm.confirm_login_allowed, which LoginForm inherits.
confirm_login_allowed(u) == accounts[u].is_active

\* RuralLoginView with LoginForm.
Login(u, password_ok) ==
    /\ u \in Accounts
    /\ IF ~Authenticates(u, password_ok)
       THEN /\ response' = Resp("login", 200,
                   "Please enter a correct username and password.")
            /\ UNCHANGED db
       ELSE IF ~confirm_login_allowed(u)
       THEN /\ response' = Resp("login", 200, "This account is inactive.")
            /\ UNCHANGED db
       ELSE /\ auth' = u
            /\ response' = Resp("login", 302, "")
            /\ UNCHANGED <<products, accepted_payment_methods, orders, items,
                           payments, deliveries, audit, session, webhook_secret,
                           resolving, accounts, tokens, now, calls>>

Logout ==
    /\ auth' = NoUser
    /\ response' = Resp("logout", 302, "")
    /\ UNCHANGED <<products, accepted_payment_methods, orders, items, payments,
                   deliveries, audit, session, webhook_secret, resolving,
                   accounts, tokens, now, calls>>

\* verify_email: the token looked up, tested, consumed; the user activated
\* and logged in.
VerifyEmail(t) ==
    IF ~TokenExists(tokens, t)
    THEN /\ response' = Resp("verify_email", 302,
                             "That verification link is no longer valid.")
         /\ UNCHANGED db
    ELSE IF ~is_valid(tokens[t], now)
    THEN /\ response' = Resp("verify_email", 302,
                IF is_consumed(tokens[t])
                THEN "This email address has already been confirmed."
                ELSE "That verification link has expired. Request a new one below.")
         /\ UNCHANGED db
    ELSE /\ tokens' = mark_consumed(tokens, t, now)
         /\ accounts' = [accounts EXCEPT ![tokens[t].user].email_verified = TRUE,
                                         ![tokens[t].user].is_active = TRUE]
         /\ auth' = tokens[t].user
         /\ response' = Resp("verify_email", 302, "Email verified! You're all set.")
         /\ UNCHANGED <<products, accepted_payment_methods, orders, items,
                        payments, deliveries, audit, session, webhook_secret,
                        resolving, now, calls>>

\* A day passes.
Tick ==
    /\ now + DayHours <= MaxHours
    /\ now' = now + DayHours
    /\ UNCHANGED <<products, accepted_payment_methods, orders, items, payments,
                   deliveries, audit, session, webhook_secret, resolving,
                   accounts, tokens, auth, response, calls>>

----------------------------------------------------------------------------
\* Handlers running statement by statement, several requests at once: each
\* statement is its own database transaction (autocommit), and between the
\* statements of one request the other requests run.  A request keeps the
\* model instances it loaded; recalculate_total's transaction.atomic holds no
\* lock between its aggregate and its save.

NoCall ==
    [pc |-> "idle", user |-> NoUser, order |-> 0, instance |-> NewOrder(NoUser),
     product |-> 0, quantity |-> 0, price |-> 0, created |-> FALSE, total |-> 0,
     allowed |-> <<>>]

Idle(r) == calls[r].pc = "idle"

\* add_to_cart up to item.save(): the product, the role, the cart, the
\* quantity and the item looked up or made.
AddToCartBegin(r, u, p, raw) ==
    /\ Idle(r)
    /\ u \in Customers
    /\ p \in ProductIds
    /\ products[p].available
    /\ CartRoom(u)
    /\ \E c \in {GetOrCreateCart(orders, session, u)} :
       \E current_quantity \in {QuantityOf(items, c.cart, p)} :
       \E max_additional \in {MaxAdditional(products[p].inventory, current_quantity)} :
          /\ orders' = c.orders
          /\ session' = c.session
          /\ IF products[p].inventory <= 0
             THEN /\ response' = [Resp("add_to_cart", 302, "out of stock")
                                     EXCEPT !.order = c.cart]
                  /\ UNCHANGED calls
             ELSE IF max_additional <= 0
             THEN /\ response' = [Resp("add_to_cart", 302, "maximum available quantity")
                                     EXCEPT !.order = c.cart]
                  /\ UNCHANGED calls
             ELSE /\ calls' = [calls EXCEPT ![r] =
                        [NoCall EXCEPT
                            !.pc = "item_save", !.user = u, !.order = c.cart,
                            !.instance = c.orders[c.cart], !.product = p,
                            !.quantity = current_quantity
                                + AddQuantity(RequestedQuantity(raw), max_additional),
                            !.price = products[p].price,
                            !.created = ~HasItem(items, c.cart, p)]]
                  /\ UNCHANGED response
    /\ UNCHANGED <<products, accepted_payment_methods, items, payments, deliveries,
                   audit, webhook_secret, resolving, identity>>

\* OrderItem.save, super().save(): the INSERT of a new item (IntegrityError
\* when the pair exists by now) or the UPDATE of the row that was read.
ItemSaveRow(r) ==
    /\ calls[r].pc = "item_save"
    /\ IF calls[r].created = HasItem(items, calls[r].order, calls[r].product)
       THEN /\ calls' = [calls EXCEPT ![r] = NoCall]
            /\ response' = [Resp("add_to_cart", 500, "") EXCEPT !.order = calls[r].order]
            /\ UNCHANGED items
       ELSE /\ items' = WriteItem(items, calls[r].order, calls[r].product,
                                  calls[r].quantity, calls[r].price)
            /\ calls' = [calls EXCEPT ![r].pc = "aggregate"]
            /\ UNCHANGED response
    /\ UNCHANGED <<products, accepted_payment_methods, orders, payments, deliveries,
                   audit, session, webhook_secret, resolving, identity>>

\* recalculate_total: total = self.items.aggregate(Sum("line_total")).
RecalculateAggregate(r) ==
    /\ calls[r].pc = "aggregate"
    /\ calls' = [calls EXCEPT ![r].pc = "save_total",
                              ![r].total = SumLineTotals(ItemsOfOrder(items, calls[r].order))]
    /\ UNCHANGED <<products, accepted_payment_methods, orders, items, payments,
                   deliveries, audit, session, webhook_secret, resolving, identity,
                   response>>

\* recalculate_total: self.save(update_fields=["total_amount"]), and the
\* post_save receiver on the instance the request holds.
RecalculateSave(r) ==
    /\ calls[r].pc = "save_total"
    /\ orders' = [orders EXCEPT ![calls[r].order].total_amount = calls[r].total]
    /\ deliveries' = EnsureDeliveryExists(deliveries,
                        [orders EXCEPT ![calls[r].order] = calls[r].instance],
                        items, calls[r].order)
    /\ calls' = [calls EXCEPT ![r] = NoCall]
    /\ response' = [Resp("add_to_cart", 302, "added") EXCEPT !.order = calls[r].order]
    /\ UNCHANGED <<products, accepted_payment_methods, items, payments, audit,
                   session, webhook_secret, resolving, identity>>

\* CheckoutView.dispatch: the cart resolved and kept as self.cart, the empty
\* cart turned away, the payment choices prepared.
CheckoutDispatch(r, u) ==
    /\ Idle(r)
    /\ u \in Customers
    /\ CartRoom(u)
    /\ \E c \in {GetOrCreateCart(orders, session, u)} :
          /\ orders' = c.orders
          /\ session' = c.session
          /\ IF ~CartHasItems(items, c.cart)
             THEN /\ response' = [Resp("checkout", 302, "Your cart is empty.")
                                     EXCEPT !.order = c.cart]
                  /\ UNCHANGED calls
             ELSE /\ calls' = [calls EXCEPT ![r] =
                        [NoCall EXCEPT
                            !.pc = "form_valid", !.user = u, !.order = c.cart,
                            !.instance = c.orders[c.cart],
                            !.allowed = PreparePaymentChoices(items, c.cart).allowed]]
                  /\ UNCHANGED response
    /\ UNCHANGED <<products, accepted_payment_methods, items, payments, deliveries,
                   audit, webhook_secret, resolving, identity>>

\* The form's validation and CheckoutView.form_valid, on the self.cart that
\* dispatch loaded: self.cart.save() writes every field of that instance.
CheckoutSubmit(r, form, provider) ==
    /\ calls[r].pc = "form_valid"
    /\ calls' = [calls EXCEPT ![r] = NoCall]
    /\ IF ~CheckoutFormIsValid(form, provider, calls[r].allowed)
       THEN /\ response' = [Resp("checkout", 200,
                                 CheckoutFormError(form, provider, calls[r].allowed))
                               EXCEPT !.order = calls[r].order]
            /\ UNCHANGED <<orders, session, payments, deliveries, audit>>
       ELSE /\ Len(payments) < MaxPayments
            /\ Len(audit) + CheckoutAuditRows(provider) <= MaxAudit
            /\ \E e \in {CheckoutFormValid(
                            [orders EXCEPT ![calls[r].order] = calls[r].instance],
                            items, deliveries, payments, audit, calls[r].order,
                            calls[r].user, form, provider)} :
                  /\ orders' = e.orders
                  /\ deliveries' = e.deliveries
                  /\ payments' = e.payments
                  /\ audit' = e.audit
                  /\ response' = [Resp("checkout", 302, e.msg)
                                     EXCEPT !.order = calls[r].order]
            /\ session' = [session EXCEPT ![calls[r].user] = 0]
    /\ UNCHANGED <<products, accepted_payment_methods, items, webhook_secret,
                   resolving, identity>>

\* The accounts after seeding, nobody signed up, nobody logged in.
InitIdentity ==
    /\ accounts = [u \in Accounts |-> IF u \in Users THEN CreatedUser ELSE NoAccount]
    /\ tokens = <<>>
    /\ now = 0
    /\ auth = NoUser

\* The initial state: two products of two farmers in stock, no orders, and the
\* webhook secret as the environment sets it ("" when it sets none).
InitWith(stock, secrets) ==
    /\ products = [p \in ProductIds |->
                     [farmer |-> IF p = 1 THEN "f1" ELSE "f2",
                      price |-> p, inventory |-> stock, available |-> TRUE]]
    /\ accepted_payment_methods = [f \in Farmers |-> <<>>]
    /\ orders = <<>>
    /\ items = [o \in 1..MaxOrders |-> <<>>]
    /\ payments = <<>>
    /\ deliveries = {}
    /\ audit = <<>>
    /\ session = [c \in Customers |-> 0]
    /\ webhook_secret \in secrets
    /\ resolving = [r \in Requests |-> NoResolution]
    /\ InitIdentity
    /\ calls = [r \in Requests |-> NoCall]
    /\ response = NoResponse

Init == InitWith(1, {"whsec_live"})

\* A deployment whose environment may have set no STRIPE_WEBHOOK_SECRET.
InitAnySecret == InitWith(1, {"", "whsec_live"})

InitStocked == InitWith(MaxInventory, {"whsec_live"})

\* Sessions that outlived the orders they name (the orders were removed, or
\* the database was recreated, while the session store kept its entries).
InitStaleSessions ==
    /\ products = [p \in ProductIds |->
                     [farmer |-> IF p = 1 THEN "f1" ELSE "f2",
                      price |-> p, inventory |-> 1, available |-> TRUE]]
    /\ accepted_payment_methods = [f \in Farmers |-> <<>>]
    /\ orders = <<>>
    /\ items = [o \in 1..MaxOrders |-> <<>>]
    /\ payments = <<>>
    /\ deliveries = {}
    /\ audit = <<>>
    /\ session \in [Customers -> 0..MaxOrders]
    /\ webhook_secret = "whsec_live"
    /\ resolving = [r \in Requests |-> NoResolution]
    /\ InitIdentity
    /\ calls = [r \in Requests |-> NoCall]
    /\ response = NoResponse

\* Inputs of the requests.
\* The customer who shops in the scenarios below.
Shoppers == {"c1"}

IntegerText(n) == [valid |-> TRUE, n |-> n]

\* Webhook requests: any signature with a CSRF token, and Stripe's own request,
\* signed with the live secret and carrying no CSRF token.
WebhookRequests ==
    {[event |-> event, sig_header |-> sig_header, csrf_token |-> TRUE] :
        event \in WebhookEvents, sig_header \in {NoSignature} }
    \cup {[event |-> event, sig_header |-> ComputeSignature(event, key),
           csrf_token |-> TRUE] : event \in WebhookEvents, key \in SignerKeys}
    \cup {[event |-> event, sig_header |-> ComputeSignature(event, "whsec_live"),
           csrf_token |-> FALSE] : event \in WebhookEvents}

\* Quantities asked of add_to_cart while one unit is in stock.
FewQuantities == {IntegerText(1), IntegerText(MaxQuantity)}

AdminStatusInputs == {"confirmed", "shipped"}

\* The payment_status the form submits: the displayed one, or paid.
AdminPaymentInputs(o) ==
    {"paid"} \cup (IF o \in DOMAIN orders THEN {orders[o].payment_status} ELSE {})

InventoryPayloads == {[id \in {1} |-> JsonInt(n)] : n \in -1..1}

\* Delivery forms: a status of the choices or not, a driver name or none.
DeliveryForms ==
    {[status |-> st, driver_name |-> dn] :
        st \in {"scheduled", "completed", "lost"}, dn \in {"", "Ravi"}}

\* Product forms of the administrator: the price kept, the inventory set.
ProductForms ==
    {[price |-> 1, inventory |-> n, available |-> TRUE] : n \in 0..1}

\* The whole application, one request at a time.
Next ==
    \/ \E u \in Shoppers, p \in ProductIds, raw \in FewQuantities : AddToCart(u, p, raw)
    \/ \E u \in Shoppers : CheckoutGet(u)
    \/ \E u \in Shoppers, form \in CheckoutForms, provider \in ProviderInputs :
          CheckoutPost(u, form, provider)
    \/ \E methods \in {<<"stripe">>} : ProfileUpdate("f2", methods)
    \/ \E u \in Shoppers, o \in 1..MaxOrders : PaymentInitGet(u, o)
    \/ \E u \in Shoppers, o \in 1..MaxOrders, provider \in ProviderInputs :
          PaymentInitPost(u, o, provider)
    \/ \E r \in WebhookRequests : StripeWebhook(r.event, r.sig_header, r.csrf_token)
    \/ \E u \in Shoppers, o \in 1..MaxOrders : OrderCancel(u, o)
    \/ \E a \in Admins, o \in 1..MaxOrders, status \in AdminStatusInputs :
       \E payment_status \in AdminPaymentInputs(o) :
          AdminOrderUpdate(a, o, status, payment_status)
    \/ \E f \in Farmers, payload \in InventoryPayloads : InventoryBulkUpdate(f, payload)
    \/ \E u \in Users \cup {AnonymousUser}, d \in 1..MaxOrders, form \in DeliveryForms :
          FarmerDeliveryUpdate(u, d, form)
    \/ \E a \in Admins, form \in ProductForms : AdminProductUpdate(a, 1, form)
    \/ \E a \in Admins, decision \in {"approve", "reject"} :
          ProductModeration(a, 1, decision)

Spec == Init /\ [][Next]_vars

SpecAnySecret == InitAnySecret /\ [][Next]_vars

\* The model methods of OrderItem, called by add_to_cart and outside the views.
NextItems ==
    \/ \E u \in Customers, p \in ProductIds, raw \in RawQuantities : AddToCart(u, p, raw)
    \/ \E o \in 1..MaxOrders, p \in ProductIds, q \in {1, MaxQuantity} :
          OrderItemSave(o, p, q)
    \/ \E o \in 1..MaxOrders, p \in ProductIds : OrderItemDelete(o, p)

SpecItems == InitStocked /\ [][NextItems]_vars

\* A customer shopping and checking out while the stock stays as it is.
NextShopping ==
    \/ \E u \in Shoppers, p \in ProductIds, raw \in RawQuantities : AddToCart(u, p, raw)
    \/ \E p \in ProductIds : AddToCart("f1", p, IntegerText(1))
    \/ \E u \in Shoppers : CheckoutPost(u, FilledForm, "cod")

SpecShopping == InitStocked /\ [][NextShopping]_vars

\* A customer filling the cart and submitting the checkout form, and a farmer
\* restricting the payment methods they accept.
NextCheckout ==
    \/ \E u \in Shoppers, p \in ProductIds, raw \in FewQuantities : AddToCart(u, p, raw)
    \/ \E u \in Shoppers : CheckoutGet(u)
    \/ \E u \in Shoppers, form \in CheckoutForms, provider \in ProviderInputs :
          CheckoutPost(u, form, provider)
    \/ \E methods \in {<<"stripe">>} : ProfileUpdate("f2", methods)
    \/ \E u \in Shoppers, o \in 1..MaxOrders : OrderCancel(u, o)

SpecCheckout == Init /\ [][NextCheckout]_vars

\* The operations that write payment_status or a Payment: checkout, payment
\* initiation, the webhook, cancellation and the administrator's update.
NextPayments ==
    \/ \E u \in Shoppers : AddToCart(u, 1, IntegerText(1))
    \/ \E u \in Shoppers, provider \in {"stripe", "cod"} :
          CheckoutPost(u, FilledForm, provider)
    \/ \E u \in Shoppers, o \in 1..MaxOrders, provider \in {"stripe", "cod"} :
          PaymentInitPost(u, o, provider)
    \/ \E r \in WebhookRequests : StripeWebhook(r.event, r.sig_header, r.csrf_token)
    \/ \E u \in Shoppers, o \in 1..MaxOrders : OrderCancel(u, o)
    \/ \E a \in Admins, o \in 1..MaxOrders :
       \E payment_status \in AdminPaymentInputs(o) :
          AdminOrderUpdate(a, o, "confirmed", payment_status)

SpecPayments == Init /\ [][NextPayments]_vars

\* Gateway checkouts, the provider delivering its events, more than once, and
\* the administrator shipping the orders.
NextRedelivery ==
    \/ \E u \in Shoppers : AddToCart(u, 1, IntegerText(1))
    \/ \E u \in Shoppers, provider \in {"stripe", "cod"} :
          CheckoutPost(u, FilledForm, provider)
    \/ \E r \in WebhookRequests : StripeWebhook(r.event, r.sig_header, r.csrf_token)
    \/ \E a \in Admins, o \in 1..MaxOrders :
       \E payment_status \in AdminPaymentInputs(o) :
          AdminOrderUpdate(a, o, "shipped", payment_status)

SpecRedelivery == Init /\ [][NextRedelivery]_vars

\* The same operations in a deployment that may have set no webhook secret.
SpecPaymentsAnySecret == InitAnySecret /\ [][NextPayments]_vars

\* Farmers choosing the payment methods they accept, and the forms that offer
\* the providers of an order.
MethodChoices == {<<"stripe">>, <<"cod">>, <<"paypal", "stripe">>}

NextChoices ==
    \/ \E u \in Shoppers, p \in ProductIds : AddToCart(u, p, IntegerText(1))
    \/ \E f \in Farmers, methods \in MethodChoices : ProfileUpdate(f, methods)
    \/ \E u \in Shoppers : CheckoutGet(u)
    \/ \E u \in Shoppers, provider \in {"stripe"} : CheckoutPost(u, FilledForm, provider)
    \/ \E u \in Shoppers, o \in 1..MaxOrders : PaymentInitGet(u, o)
    \/ \E u \in Shoppers, o \in 1..MaxOrders : PaymentInitPost(u, o, "paypal")

SpecChoices == Init /\ [][NextChoices]_vars

\* Two customers placing orders, the administrator moving them on, and any
\* user asking to cancel any order.
CancelStatusInputs == {"confirmed", "shipped", "delivered"}

NextCancel ==
    \/ \E u \in Customers : AddToCart(u, 1, IntegerText(1))
    \/ \E u \in Customers : CheckoutPost(u, FilledForm, "stripe")
    \/ \E a \in Admins, o \in 1..MaxOrders, status \in CancelStatusInputs :
          AdminOrderUpdate(a, o, status, "unpaid")
    \/ \E u \in Users, o \in 1..MaxOrders : OrderCancel(u, o)

SpecCancel == Init /\ [][NextCancel]_vars

\* Orders being placed, and any actor submitting the delivery form.
NextDeliveries ==
    \/ \E u \in Shoppers, p \in ProductIds : AddToCart(u, p, IntegerText(1))
    \/ \E u \in Shoppers : CheckoutPost(u, FilledForm, "stripe")
    \/ \E u \in Users \cup {AnonymousUser}, d \in 1..MaxOrders, form \in DeliveryForms :
          FarmerDeliveryUpdate(u, d, form)

SpecDeliveries == Init /\ [][NextDeliveries]_vars

\* The line-item methods, ending normally or failing between their two writes.
NextItemFailures ==
    \/ \E u \in Shoppers, p \in ProductIds : AddToCart(u, p, IntegerText(1))
    \/ \E o \in 1..MaxOrders, p \in ProductIds, q \in {1, MaxQuantity} :
          OrderItemSave(o, p, q)
    \/ \E o \in 1..MaxOrders, p \in ProductIds : OrderItemDelete(o, p)
    \/ \E o \in 1..MaxOrders, p \in ProductIds, q \in {1, MaxQuantity} :
          OrderItemSaveFails(o, p, q)
    \/ \E o \in 1..MaxOrders, p \in ProductIds : OrderItemDeleteFails(o, p)

SpecItemFailures == InitStocked /\ [][NextItemFailures]_vars

\* Gateway payments whose success callback ends normally or fails between the
\* payment's save and the order's.
SignedRequests ==
    {[event |-> event, sig_header |-> ComputeSignature(event, "whsec_live"),
      csrf_token |-> TRUE] : event \in WebhookEvents}

NextPaymentFailures ==
    \/ \E u \in Shoppers : AddToCart(u, 1, IntegerText(1))
    \/ \E u \in Shoppers, provider \in {"stripe", "cod"} :
          CheckoutPost(u, FilledForm, provider)
    \/ \E r \in SignedRequests : StripeWebhook(r.event, r.sig_header, r.csrf_token)
    \/ \E r \in SignedRequests :
          StripeWebhookOrderSaveFails(r.event, r.sig_header, r.csrf_token)
    \/ \E u \in Shoppers, o \in 1..MaxOrders : OrderCancel(u, o)

SpecPaymentFailures == Init /\ [][NextPaymentFailures]_vars

\* Checkout submissions ending normally or failing after the order's save.
NextCheckoutFailures ==
    \/ \E u \in Shoppers, p \in ProductIds : AddToCart(u, p, IntegerText(1))
    \/ \E u \in Shoppers : CheckoutGet(u)
    \/ \E u \in Shoppers, provider \in {"stripe", "cod"} :
          CheckoutPost(u, FilledForm, provider)
    \/ \E u \in Shoppers, provider \in {"stripe", "cod"} :
          CheckoutPostFails(u, FilledForm, provider)

SpecCheckoutFailures == Init /\ [][NextCheckoutFailures]_vars

\* Requests of the customers' sessions resolving the cart, two at a time at most.
NextCartRace ==
    \/ \E r \in Requests, u \in Customers : ResolveBegin(r, u)
    \/ \E r \in Requests : ResolveLookup(r)
    \/ \E r \in Requests : ResolveCreate(r)
    \/ \E r \in Requests : ResolveStore(r)

SpecCartRace == Init /\ [][NextCartRace]_vars

\* Customers whose sessions may hold stale cart references shopping and
\* checking out; a checkout that fails leaves the reference to the placed order.
NextStaleCarts ==
    \/ \E u \in Customers : AddToCart(u, 1, IntegerText(1))
    \/ \E u \in Customers : CheckoutGet(u)
    \/ \E u \in Customers : CheckoutPost(u, FilledForm, "stripe")
    \/ \E u \in Customers : CheckoutPostFails(u, FilledForm, "stripe")

SpecStaleCarts == InitStaleSessions /\ [][NextStaleCarts]_vars

\* The operations that write audit entries.
NextAudit ==
    \/ \E u \in Shoppers : AddToCart(u, 1, IntegerText(1))
    \/ \E u \in Shoppers, provider \in {"stripe", "cod"} :
          CheckoutPost(u, FilledForm, provider)
    \/ \E u \in Shoppers, o \in 1..MaxOrders : PaymentInitPost(u, o, "cod")
    \/ \E u \in Shoppers, o \in 1..MaxOrders : OrderCancel(u, o)
    \/ \E a \in Admins, o \in 1..MaxOrders : AdminOrderUpdate(a, o, "shipped", "unpaid")
    \/ \E a \in Admins \cup {"f1"}, form \in ProductForms : AdminProductUpdate(a, 1, form)
    \/ \E a \in Admins, decision \in {"approve", "reject"} :
          ProductModeration(a, 1, decision)
    \/ \E payload \in InventoryPayloads : InventoryBulkUpdate("f1", payload)

SpecAudit == Init /\ [][NextAudit]_vars

\* Prices a product form submits.
Prices == {1, 2, 3}

\* Product forms that change the price and keep the stock.
PricedForms ==
    {[price |-> pr, inventory |-> MaxInventory, available |-> TRUE] : pr \in Prices}

\* Carts filled while the farmer and the administrator change prices.
NextPrices ==
    \/ \E u \in Shoppers, p \in ProductIds, raw \in FewQuantities : AddToCart(u, p, raw)
    \/ \E o \in 1..MaxOrders, p \in ProductIds : OrderItemDelete(o, p)
    \/ \E f \in {"f1", "c1"}, p \in ProductIds, form \in PricedForms :
          ProductUpdate(f, p, form)
    \/ \E a \in Admins, form \in PricedForms : AdminProductUpdate(a, 2, form)

SpecPrices == InitStocked /\ [][NextPrices]_vars

\* Quantities of an inventory payload: integers, the floats -0.5 and 1.5, text.
PayloadQuantities ==
    {JsonInt(-1), JsonInt(MaxInventory), JsonFloat(-1), JsonFloat(3), JsonText}

\* Payloads naming the first product or both.
AnyInventoryPayloads ==
    UNION {[ids -> PayloadQuantities] : ids \in {{1}, {1, 2}}}

\* Product forms that set the stock, below zero too.
StockForms ==
    {[price |-> 1, inventory |-> n, available |-> TRUE] : n \in {-1, 0, MaxInventory}}

\* Every writer of Product.inventory, and the cart that reads it.
NextInventory ==
    \/ \E f \in Farmers, payload \in AnyInventoryPayloads : InventoryBulkUpdate(f, payload)
    \/ \E form \in StockForms : ProductUpdate("f1", 1, form)
    \/ \E a \in Admins, form \in StockForms : AdminProductUpdate(a, 2, form)
    \/ \E u \in Shoppers : AddToCart(u, 1, IntegerText(MaxQuantity))

SpecInventory == InitStocked /\ [][NextInventory]_vars

\* Sign-up, verification links and logins of two new users and a seeded one.
NextAccounts ==
    \/ \E r \in Registrants \cup {"c1"} : SignUp(r)
    \/ \E u \in Registrants \cup {"c1"}, password_ok \in BOOLEAN : Login(u, password_ok)
    \/ Logout
    \/ \E t \in 0..MaxTokens : VerifyEmail(t)
    \/ Tick

SpecAccounts == Init /\ [][NextAccounts]_vars

\* Two add-to-cart requests of one customer in flight at once.
NextItemRace ==
    \/ \E r \in Requests, u \in Shoppers, p \in ProductIds :
          AddToCartBegin(r, u, p, IntegerText(1))
    \/ \E r \in Requests : ItemSaveRow(r)
    \/ \E r \in Requests : RecalculateAggregate(r)
    \/ \E r \in Requests : RecalculateSave(r)

SpecItemRace == InitStocked /\ [][NextItemRace]_vars

\* Every save of an order: checkout, the line-item methods, the payment
\* callback, cancellation, the administrator's update and a row added in a
\* status; with the farmer's delivery form, which is what changes a delivery.
NextDeliveryRecords ==
    \/ \E u \in Shoppers : AddToCart(u, 1, IntegerText(1))
    \/ \E u \in Shoppers, provider \in {"stripe", "cod"} :
          CheckoutPost(u, FilledForm, provider)
    \/ OrderItemSave(1, 2, 1)
    \/ \E r \in SignedRequests : r.event.payment_id = 1
          /\ StripeWebhook(r.event, r.sig_header, r.csrf_token)
    \/ \E u \in Shoppers : OrderCancel(u, 1)
    \/ \E a \in Admins : AdminOrderUpdate(a, 1, "confirmed", "unpaid")
    \/ \E u \in Shoppers : OrderCreate(u, "pending")
    \/ FarmerDeliveryUpdate("f1", 1, [status |-> "scheduled", driver_name |-> "Ravi"])

SpecDeliveryRecords == Init /\ [][NextDeliveryRecords]_vars

\* A customer's checkout submitted twice: both requests run dispatch before
\* either runs form_valid, or one after the other.
NextCheckoutRace ==
    \/ \E u \in Shoppers : AddToCart(u, 1, IntegerText(1))
    \/ \E r \in Requests, u \in Shoppers : CheckoutDispatch(r, u)
    \/ \E r \in Requests, form \in CheckoutForms, provider \in {"stripe", "cod"} :
          CheckoutSubmit(r, form, provider)

SpecCheckoutRace == Init /\ [][NextCheckoutRace]_vars

\* An add-to-cart request running statement by statement while the same
\* customer's checkout is submitted.
NextAddAfterCheckout ==
    \/ \E r \in Requests, u \in Shoppers, p \in ProductIds :
          AddToCartBegin(r, u, p, IntegerText(1))
    \/ \E r \in Requests : ItemSaveRow(r)
    \/ \E r \in Requests : RecalculateAggregate(r)
    \/ \E r \in Requests : RecalculateSave(r)
    \/ \E u \in Shoppers : CheckoutPost(u, FilledForm, "stripe")

SpecAddAfterCheckout == Init /\ [][NextAddAfterCheckout]_vars

----------------------------------------------------------------------------
\* Properties.

\* The quantity of product p among the items of order o, 0 when there is none.
QuantityIn(its, o, p) == IF HasItem(its, o, p) THEN ItemOf(its, o, p).quantity ELSE 0

\* The sum of line_total over the items of order o, item by item.
RECURSIVE SumOver(_, _)
SumOver(its, n) == IF n = 0 THEN 0 ELSE its[n].line_total + SumOver(its, n - 1)

\* C1: once OrderItem.save or OrderItem.delete has completed (directly or
\* through add_to_cart), the order's total_amount equals the sum of line_total
\* over all its items, and each line_total is quantity * price.
C1_TotalIsSumOfLineTotals ==
    \A o \in DOMAIN orders :
        /\ orders[o].total_amount = SumOver(items[o], Len(items[o]))
        /\ \A i \in DOMAIN items[o] :
              items[o][i].line_total = items[o][i].quantity * items[o][i].price

\* An item was deleted from an order that keeps another item, and the total
\* is the line total of the item that is left.
C1_Witness ==
    /\ response.view = "OrderItem.delete"
    /\ response.order \in DOMAIN orders
    /\ Len(items[response.order]) = 1
    /\ orders[response.order].total_amount > 0

\* C2: add_to_cart for an in-stock product of inventory I, the cart holding c
\* units and q >= 1 requested, leaves the cart with c + min(q, max(0, I - c))
\* units; and while the inventory is unchanged no item's quantity exceeds it.
C2_AddStep(u, p, q) ==
    LET cart == IF CartFound(orders, session, u) THEN session[u] ELSE Len(orders) + 1
        c == QuantityIn(items, cart, p)
        I == products[p].inventory
        room == IF I - c > 0 THEN I - c ELSE 0
        added == IF q <= room THEN q ELSE room
    IN /\ response'.view = "add_to_cart"
       /\ I > 0
       /\ \A other \in ProductIds \ {p} :
             QuantityIn(items', cart, other) = QuantityIn(items, cart, other)
       /\ AddToCart(u, p, IntegerText(q))
       => /\ response'.order = cart
          /\ QuantityIn(items', cart, p) = c + added

C2_AddToCartCapsAtInventory ==
    /\ [](\A o \in DOMAIN orders : \A i \in DOMAIN items[o] :
            items[o][i].quantity <= products[items[o][i].product].inventory)
    /\ [][\A u \in Customers, p \in ProductIds, q \in 1..MaxQuantity :
            C2_AddStep(u, p, q)]_vars

\* A request for more than the stock left room for: the cart holds exactly the
\* inventory of the product.
C2_Witness ==
    /\ response.view = "add_to_cart"
    /\ response.msg = "added, only some available"
    /\ \E p \in ProductIds :
          QuantityIn(items, response.order, p) = products[p].inventory

\* The providers every farmer of the order's products accepts, a farmer with
\* no configured list accepting all; every provider when that leaves none.
AcceptedByAll(o) ==
    {code \in DefaultCodes :
        \A i \in DOMAIN items[o] :
            LET configured == accepted_payment_methods[products[items[o][i].product].farmer]
            IN configured = <<>> \/ \E k \in DOMAIN configured : configured[k] = code}

OfferedFor(o) == IF AcceptedByAll(o) = {} THEN DefaultCodes ELSE AcceptedByAll(o)

\* The customer's cart has no line items (none exists yet, or it is empty).
HasEmptyCart(u) == ~CartFound(orders, session, u) \/ items[session[u]] = <<>>

\* C3: a checkout request (GET or POST) of a customer whose cart has no items
\* changes no order's status or delivery details, creates no Payment, Delivery
\* or AuditLog row, and redirects with the empty-cart warning.
C3_Step(u) ==
    /\ response'.view = "checkout"
    /\ HasEmptyCart(u)
    /\ \/ CheckoutGet(u)
       \/ \E form \in CheckoutForms, provider \in ProviderInputs :
             CheckoutPost(u, form, provider)
    => /\ \A o \in DOMAIN orders : orders'[o] = orders[o]
       /\ payments' = payments
       /\ deliveries' = deliveries
       /\ audit' = audit
       /\ items' = items
       /\ response'.code = 302
       /\ response'.msg = "Your cart is empty."

C3_EmptyCartCheckoutChangesNothing == [][\A u \in Customers : C3_Step(u)]_vars

\* The empty-cart redirect was answered while an order placed earlier exists.
C3_Witness ==
    /\ response.view = "checkout"
    /\ response.msg = "Your cart is empty."
    /\ items[response.order] = <<>>
    /\ \E o \in DOMAIN orders : orders[o].status # "cart"

C4_FallbackWitness ==
    /\ response.code = 200 /\ response.view = "checkout"
    /\ AcceptedByAll(response.order) = {}
    /\ response.using_default
    /\ response.choices = AllChoices

\* C5: a checkout submission naming a provider outside the set offered for the
\* cart is rejected: no order, payment, delivery or audit row changes, and the
\* session keeps its reference to the cart.
C5_Step(u, form, provider) ==
    /\ response'.view = "checkout"
    /\ ~HasEmptyCart(u)
    /\ provider \notin OfferedFor(session[u])
    /\ CheckoutPost(u, form, provider)
    => /\ orders' = orders
       /\ items' = items
       /\ payments' = payments
       /\ deliveries' = deliveries
       /\ audit' = audit
       /\ session'[u] = session[u]
       /\ response'.code = 200
       /\ response'.msg = "Selected payment method is not available for this order."

C5_DisallowedProviderRejected ==
    [][\A u \in Customers, form \in CheckoutForms, provider \in ProviderInputs :
          C5_Step(u, form, provider)]_vars

\* A submission was rejected for its provider while the cart's farmers accept
\* only some providers; the cart is still a cart and the session names it.
C5_Witness ==
    /\ response.view = "checkout" /\ response.code = 200
    /\ response.msg = "Selected payment method is not available for this order."
    /\ "cod" \notin SeqToSet(response.choices)
    /\ \E u \in Customers : session[u] = response.order
    /\ orders[response.order].status = "cart"

\* C6: a valid cash-on-delivery checkout of a cart with items leaves the order
\* confirmed (from cart, through pending) and unpaid with the submitted
\* delivery details, creates exactly one Payment (cod, initiated) for it,
\* appends audit entries for the order, and drops the session's cart reference.
C6_Step(u, form) ==
    LET cart == session[u]
    IN /\ response'.view = "checkout"
       /\ ~HasEmptyCart(u)
       /\ form.delivery_address # ""
       /\ "cod" \in OfferedFor(cart)
       /\ CheckoutPost(u, form, "cod")
       => /\ orders[cart].status = "cart"
          /\ orders'[cart].status = "confirmed"
          /\ orders'[cart].payment_status = "unpaid"
          /\ orders'[cart].delivery_address = form.delivery_address
          /\ orders'[cart].scheduled_date = form.scheduled_date
          /\ orders'[cart].scheduled_window = form.scheduled_window
          /\ orders'[cart].notes = form.notes
          /\ Len(payments') = Len(payments) + 1
          /\ payments'[Len(payments')].order = cart
          /\ payments'[Len(payments')].provider = "cod"
          /\ payments'[Len(payments')].status = "initiated"
          /\ \A pid \in DOMAIN payments : payments'[pid] = payments[pid]
          /\ Len(audit') > Len(audit)
          /\ \E k \in DOMAIN audit' :
                /\ k > Len(audit)
                /\ audit'[k].action = "Checkout completed"
                /\ audit'[k].object_id = cart
                /\ audit'[k].user = u
          /\ \E d \in deliveries' : d.order = cart
          /\ session'[u] = 0

C6_CashOnDeliveryCheckout ==
    [][\A u \in Customers, form \in CheckoutForms : C6_Step(u, form)]_vars

\* A cash-on-delivery checkout has completed.
C6_Witness ==
    /\ response.view = "checkout"
    /\ response.msg = "Order confirmed. Cash on delivery has been recorded."
    /\ orders[response.order].status = "confirmed"
    /\ \E pid \in DOMAIN payments :
          payments[pid].order = response.order /\ payments[pid].provider = "cod"

Gateways == {"stripe", "paypal"}

\* C7: an order checked out with a gateway provider is pending after checkout
\* and becomes confirmed when the success callback for its payment is
\* processed.
C7_CheckoutStep(u, form, provider) ==
    /\ response'.view = "checkout"
    /\ ~HasEmptyCart(u)
    /\ form.delivery_address # ""
    /\ provider \in OfferedFor(session[u])
    /\ CheckoutPost(u, form, provider)
    => orders'[session[u]].status = "pending"

C7_CallbackStep(pid) ==
    /\ response'.view = "webhook"
    /\ payments[pid].provider \in Gateways
    /\ payments[pid].status = "initiated"
    /\ payments'[pid].status = "success"
    /\ orders[payments[pid].order].status = "pending"
    => orders'[payments[pid].order].status = "confirmed"

C7_GatewayOrderConfirmedBySuccess ==
    [][/\ \A u \in Customers, form \in CheckoutForms, provider \in Gateways :
             C7_CheckoutStep(u, form, provider)
       /\ \A pid \in DOMAIN payments : C7_CallbackStep(pid)]_vars

\* An order's payment_status turns paid in this step.
BecomesPaid(o) ==
    /\ o \in DOMAIN orders => orders[o].payment_status # "paid"
    /\ orders'[o].payment_status = "paid"

\* The step is the webhook marking a payment of order o successful.
MarkedSuccessfulFor(o) ==
    /\ response'.view = "webhook"
    /\ \E pid \in DOMAIN payments :
          /\ payments[pid].order = o
          /\ payments'[pid].status = "success"
          /\ payments'[pid].raw_response # <<>>

C9_Step(r) ==
    LET pid == r.event.payment_id
    IN /\ response'.view = "webhook"
       /\ pid \in DOMAIN payments
       /\ payments[pid].status = "success"
       /\ payments[pid].transaction_id = r.event.id
       /\ orders[payments[pid].order].payment_status = "paid"
       /\ StripeWebhook(r.event, r.sig_header, r.csrf_token)
       => /\ payments' = payments
          /\ orders' = orders
          /\ deliveries' = deliveries
          /\ audit' = audit

C9_SuccessIsIdempotent == [][\A r \in WebhookRequests : C9_Step(r)]_vars

\* The success event of a payment was accepted for an order that an
\* administrator has since shipped: the payment is successful with the event's
\* transaction id and the order is paid and still shipped.
C9_Witness ==
    /\ response.view = "webhook" /\ response.code = 200 /\ response.order # 0
    /\ orders[response.order].payment_status = "paid"
    /\ orders[response.order].status = "shipped"
    /\ \E pid \in DOMAIN payments :
          /\ payments[pid].order = response.order
          /\ payments[pid].status = "success"
          /\ payments[pid].transaction_id = "txn_1"
          /\ payments[pid].raw_response = <<"txn_1", pid>>

\* C10: the webhook changes a Payment or an Order only after the signature is
\* verified against the configured secret; a request with a missing or invalid
\* signature, a deployment with no configured secret, or an event without a
\* payment_id leaves every Payment and Order unchanged.
C10_Step(r) ==
    /\ response'.view = "webhook"
    /\ \/ r.sig_header = NoSignature
       \/ r.sig_header # ComputeSignature(r.event, webhook_secret)
       \/ webhook_secret = ""
       \/ r.event.payment_id = 0
    /\ StripeWebhook(r.event, r.sig_header, r.csrf_token)
    => payments' = payments /\ orders' = orders

C10_WebhookChangesOnlyWhenVerified ==
    [][\A r \in WebhookRequests : C10_Step(r)]_vars

----------------------------------------------------------------------------
\* C11: the payment webhook answers every request with HTTP 200, whether the
\* request is rejected (signature missing or invalid, no payment_id) or its
\* processing fails: no response of the webhook carries another status.
C11_WebhookAlwaysAnswers200 ==
    response.view = "webhook" => response.code = 200

----------------------------------------------------------------------------
\* C12: a cancel request changes an order's status, to cancelled, exactly when
\* the order is the requesting customer's own and is pending or confirmed; a
\* shipped order stays shipped with the support message, a delivered or
\* cancelled order is left as it is, and a blocked request writes no audit entry.
C12_Allowed(u, o) ==
    /\ is_customer(u)
    /\ o \in DOMAIN orders
    /\ orders[o].customer = u
    /\ orders[o].status \in {"pending", "confirmed"}

C12_Step(u, o) ==
    OrderCancel(u, o) =>
       /\ (\E x \in DOMAIN orders : orders'[x].status # orders[x].status)
             <=> C12_Allowed(u, o)
       /\ C12_Allowed(u, o) => orders' = [orders EXCEPT ![o].status = "cancelled"]
       /\ ~C12_Allowed(u, o) => orders' = orders /\ audit' = audit
       /\ (/\ o \in DOMAIN orders
           /\ orders[o].customer = u
           /\ orders[o].status = "shipped")
             => /\ orders'[o].status = "shipped"
                /\ response'.msg = "Shipped orders require support assistance to cancel."

C12_CancelOnlyOwnOpenOrders ==
    [][response'.view = "cancel" =>
          \A u \in Users, o \in 1..MaxOrders : C12_Step(u, o)]_vars

\* The customer's own pending order was cancelled by the last request.
C12_Witness ==
    /\ response.view = "cancel"
    /\ response.msg = "Your order has been cancelled."
    /\ orders[response.order].status = "cancelled"
    /\ \E i \in DOMAIN audit :
          /\ audit[i].action = "Order cancelled by customer"
          /\ audit[i].metadata.previous_status = "pending"

\* A shipped order was asked to be cancelled, and is still shipped.
C12_ShippedWitness ==
    /\ response.view = "cancel"
    /\ response.msg = "Shipped orders require support assistance to cancel."
    /\ orders[response.order].status = "shipped"

\* A delivered order was asked to be cancelled, and is still delivered.
C12_DeliveredWitness ==
    /\ response.view = "cancel"
    /\ response.msg = "This order can no longer be cancelled."
    /\ orders[response.order].status = "delivered"

\* Another customer's placed order exists and the last cancel request found none.
C12_NotOwnWitness ==
    /\ response.view = "cancel"
    /\ response.code = 404
    /\ \E o \in DOMAIN orders : orders[o].customer = "c2" /\ orders[o].status = "pending"
    /\ \E o \in DOMAIN orders : orders[o].customer = "c1" /\ orders[o].status = "pending"

\* C13: each successful cancellation of a pending or confirmed order appends
\* exactly one audit entry, for that order, whose metadata holds the status
\* before the cancellation, "cancelled" as the new status and the order's total.
C13_Step(o) ==
    (/\ orders[o].status \in {"pending", "confirmed"}
     /\ orders'[o].status = "cancelled")
       => /\ Len(audit') = Len(audit) + 1
          /\ SubSeq(audit', 1, Len(audit)) = audit
          /\ audit'[Len(audit')].action = "Order cancelled by customer"
          /\ audit'[Len(audit')].model_name = "order"
          /\ audit'[Len(audit')].object_id = o
          /\ audit'[Len(audit')].metadata =
                [previous_status |-> orders[o].status,
                 new_status |-> "cancelled",
                 total_amount |-> DecimalText(orders[o].total_amount)]

C13_CancelWritesOneAuditEntry ==
    [][response'.view = "cancel" => \A o \in DOMAIN orders : C13_Step(o)]_vars

\* A confirmed order with a total was cancelled by the last request.
C13_Witness ==
    /\ response.view = "cancel"
    /\ response.order \in DOMAIN orders
    /\ orders[response.order].status = "cancelled"
    /\ orders[response.order].total_amount > 0
    /\ audit # <<>>
    /\ audit[Len(audit)].action = "Order cancelled by customer"
    /\ audit[Len(audit)].object_id = response.order
    /\ audit[Len(audit)].metadata.previous_status = "confirmed"

----------------------------------------------------------------------------
\* C14: a valid delivery update is applied when the actor is the farmer
\* assigned to the delivery or an administrator, and leaves the delivery
\* unchanged for every other actor (another farmer, a customer, an anonymous
\* user, or any farmer when no farmer is assigned).
C14_Authorized(u, d) ==
    \/ is_staff(u)
    \/ is_farmer(u) /\ DeliveryOf(deliveries, d).assigned_farmer = u

C14_Step(u, d, form) ==
    (/\ HasDelivery(deliveries, d)
     /\ DeliveryFormIsValid(form)
     /\ FarmerDeliveryUpdate(u, d, form))
       => IF C14_Authorized(u, d)
          THEN deliveries' = DeliverySaved(deliveries, d, form)
          ELSE deliveries' = deliveries

C14_AssignedFarmerOrAdminUpdates ==
    [][response'.view = "delivery_update" =>
          \A u \in Users \cup {AnonymousUser}, d \in 1..MaxOrders, form \in DeliveryForms :
             C14_Step(u, d, form)]_vars

----------------------------------------------------------------------------
\* C15: saving or deleting a line item and updating the order's total is
\* all-or-nothing: whenever the items of an order change, also when the
\* operation fails between its two steps, the persisted total is the sum of
\* the line totals of the items after the change.
C15_ItemAndTotalAllOrNothing ==
    [][\A o \in DOMAIN orders :
          items'[o] # items[o]
             => /\ o \in DOMAIN orders'
                /\ orders'[o].total_amount = SumLineTotals(items'[o])]_vars

\* C16: marking a payment successful and setting its order's payment_status to
\* paid is all-or-nothing: whenever a payment becomes success, also when the
\* operation fails between its two writes, its order is paid after that step.
C16_SuccessAndPaidAllOrNothing ==
    [][\A pid \in DOMAIN payments :
          (payments[pid].status # "success" /\ payments'[pid].status = "success")
             => orders'[payments[pid].order].payment_status = "paid"]_vars

\* C17: checkout is all-or-nothing: in every persisted state, also after a
\* checkout submission failed part-way, an order that left cart status has a
\* Payment row.
C17_PlacedOrderHasPayment ==
    \A o \in DOMAIN orders :
       orders[o].status # "cart"
          => \E pid \in DOMAIN payments : payments[pid].order = o

----------------------------------------------------------------------------
\* C18: cart resolution is idempotent.  A resolution whose session reference
\* names the requester's cart returns that cart and inserts no Order row, and
\* resolving again after any resolution returns the same cart; resolutions of
\* one session running two at a time, starting without a valid reference,
\* insert at most two rows: the cart needed and one more.
CartRowsOf(u) == {o \in DOMAIN orders : orders[o].customer = u}

C18_ValidReference(r) ==
    /\ resolving[r].order_id \in DOMAIN orders
    /\ orders[resolving[r].order_id].customer = resolving[r].user
    /\ orders[resolving[r].order_id].status = "cart"

C18_LookupStep(r) ==
    (/\ resolving[r].pc = "lookup"
     /\ resolving'[r].pc # "lookup"
     /\ C18_ValidReference(r))
       => /\ resolving'[r].pc = "idle"
          /\ response'.order = resolving[r].order_id
          /\ orders' = orders

C18_Repeated(u) ==
    LET first == GetOrCreateCart(orders, session, u)
        second == GetOrCreateCart(first.orders, first.session, u)
    IN /\ second.cart = first.cart
       /\ second.orders = first.orders
       /\ ~second.created

C18_CartResolutionIsIdempotent ==
    /\ [](\A u \in Customers : C18_Repeated(u) /\ Cardinality(CartRowsOf(u)) <= 2)
    /\ [][\A r \in Requests : C18_LookupStep(r)]_vars

\* Two resolutions of c1's session raced: both inserted a cart, the session
\* names the later one, and a later resolution found it.
C18_Witness ==
    /\ Cardinality(CartRowsOf("c1")) = 2
    /\ session["c1"] \in CartRowsOf("c1")
    /\ response.view = "cart"
    /\ response.msg = "found"
    /\ response.order = session["c1"]

----------------------------------------------------------------------------
\* C19: cart resolution returns only an order owned by the requester and in
\* cart status.  A session reference that is missing, names no order, names
\* another customer's order or names an order that left cart status is stale:
\* a new empty cart of the requester is inserted and its id stored in the
\* session; a reference to the requester's own cart is returned as it is.
C19_ReferenceIsValid(u) ==
    /\ session[u] # 0
    /\ session[u] \in DOMAIN orders
    /\ orders[session[u]].customer = u
    /\ orders[session[u]].status = "cart"

C19_Resolved(u) ==
    LET c == GetOrCreateCart(orders, session, u)
    IN /\ c.cart \in DOMAIN c.orders
       /\ c.orders[c.cart].customer = u
       /\ c.orders[c.cart].status = "cart"
       /\ c.session[u] = c.cart
       /\ IF C19_ReferenceIsValid(u)
          THEN c.cart = session[u] /\ c.orders = orders /\ c.session = session
          ELSE /\ c.cart \notin DOMAIN orders
               /\ c.orders = Append(orders, NewOrder(u))
               /\ \A other \in Customers \ {u} : c.session[other] = session[other]

\* The checkout page, which resolves the cart and finds it empty or not.
C19_CheckoutStep(u) ==
    (response'.view = "checkout" /\ CheckoutGet(u))
       => /\ response'.order \in DOMAIN orders'
          /\ orders'[response'.order].customer = u
          /\ orders'[response'.order].status = "cart"
          /\ session'[u] = response'.order
          /\ IF C19_ReferenceIsValid(u)
             THEN response'.order = session[u] /\ orders' = orders
             ELSE /\ response'.order = Len(orders) + 1
                  /\ orders' = Append(orders, NewOrder(u))
                  /\ items'[response'.order] = <<>>

C19_CartResolutionReturnsOwnCart ==
    /\ [](\A u \in Customers : Len(orders) < MaxOrders => C19_Resolved(u))
    /\ [][\A u \in Customers : C19_CheckoutStep(u)]_vars

\* c1's session names the cart of c2, and the checkout page just gave c2 that cart.
C19_Witness ==
    /\ session["c1"] \in DOMAIN orders
    /\ orders[session["c1"]].customer = "c2"
    /\ orders[session["c1"]].status = "cart"
    /\ session["c2"] = session["c1"]
    /\ response.view = "checkout"
    /\ response.order = session["c2"]
    /\ Len(orders) < MaxOrders

\* c1's session names c1's own order, which left cart status.
C19_PlacedWitness ==
    /\ session["c1"] \in DOMAIN orders
    /\ orders[session["c1"]].customer = "c1"
    /\ orders[session["c1"]].status = "pending"
    /\ Len(orders) < MaxOrders

\* c1's session names an order that does not exist.
C19_MissingOrderWitness ==
    /\ session["c1"] # 0
    /\ session["c1"] \notin DOMAIN orders
    /\ orders # <<>>

----------------------------------------------------------------------------
\* C20: the audit log is append-only: every operation leaves each existing
\* entry in place and unchanged (user, action, object reference, metadata),
\* so the number of entries never decreases.
C20_AuditLogIsAppendOnly ==
    [][/\ Len(audit') >= Len(audit)
       /\ SubSeq(audit', 1, Len(audit)) = audit]_vars

\* Entries of a checkout, a moderation and a cancellation, in that order.
C20_Witness ==
    /\ Len(audit) = 3
    /\ audit[1].action = "Checkout completed"
    /\ audit[2].action = "Product moderation"
    /\ audit[3].action = "Order cancelled by customer"

\* C21: a line item's price is a snapshot: a step that changes a product's
\* price changes no line item (price, line_total) and no order's total_amount,
\* and every saved line item has line_total = quantity * price.
C21_LineTotals ==
    \A o \in DOMAIN items : \A i \in DOMAIN items[o] :
        items[o][i].line_total = items[o][i].quantity * items[o][i].price

C21_PriceChanged == \E p \in ProductIds : products'[p].price # products[p].price

C21_Step ==
    C21_PriceChanged =>
        /\ items' = items
        /\ \A o \in DOMAIN orders :
              /\ o \in DOMAIN orders'
              /\ orders'[o].total_amount = orders[o].total_amount

C21_PriceIsSnapshot == []C21_LineTotals /\ [][C21_Step]_vars

\* A price was changed under a cart holding two units bought at the old price.
C21_Witness ==
    /\ response.view \in {"product_update", "admin_product_update"}
    /\ response.code = 302
    /\ \E o \in DOMAIN orders : \E i \in DOMAIN items[o] :
          /\ items[o][i].quantity >= 2
          /\ items[o][i].price # products[items[o][i].product].price
          /\ orders[o].total_amount = items[o][i].line_total

\* C22: inventory is never negative, and a farmer's bulk inventory update
\* validates all-or-nothing: a payload with a non-integer entry, a negative
\* quantity or a product of another farmer changes no inventory; any other
\* payload sets exactly the listed products to the given values.
C22_InventoryNeverNegative == \A p \in ProductIds : products[p].inventory >= 0

C22_Malformed(f, payload) ==
    \E id \in DOMAIN payload :
        \/ payload[id].type # "int"
        \/ payload[id].value < 0
        \/ id \notin ProductIds
        \/ products[id].farmer # f

C22_AsListed(payload) ==
    [id \in ProductIds |->
        IF id \in DOMAIN payload
        THEN [products[id] EXCEPT !.inventory = payload[id].value]
        ELSE products[id]]

C22_Step ==
    response'.view = "inventory_update" =>
        \A f \in Farmers, payload \in AnyInventoryPayloads :
            InventoryBulkUpdate(f, payload) =>
                IF C22_Malformed(f, payload)
                THEN products' = products
                ELSE products' = C22_AsListed(payload)

C22_BulkUpdateValidatesAllOrNothing ==
    []C22_InventoryNeverNegative /\ [][C22_Step]_vars

\* The same with a float counted as a quantity: its truncation is what is
\* validated and stored.
C22_StepOfTruncated ==
    response'.view = "inventory_update" =>
        \A f \in Farmers, payload \in AnyInventoryPayloads :
            InventoryBulkUpdate(f, payload) =>
                IF \/ \E id \in DOMAIN payload :
                         ~PyInt(payload[id]).ok \/ PyInt(payload[id]).n < 0
                   \/ \E id \in DOMAIN payload : products[id].farmer # f
                THEN products' = products
                ELSE products' = [id \in ProductIds |->
                        IF id \in DOMAIN payload
                        THEN [products[id] EXCEPT !.inventory = PyInt(payload[id]).n]
                        ELSE products[id]]

C22_TruncatedQuantitiesAllOrNothing ==
    []C22_InventoryNeverNegative /\ [][C22_StepOfTruncated]_vars

\* C23: a user whose email_verified flag is false cannot log in: the login
\* form rejects the user's correct username and password and reports an error
\* that asks the user to verify (none of the form's own messages does).
C23_LoginFormMessages ==
    {"", "Please enter a correct username and password.", "This account is inactive."}

C23_AsksToVerify(msg) == msg \notin C23_LoginFormMessages

C23_Step ==
    response'.view = "login" =>
        \A u \in Accounts :
            (/\ accounts[u].exists
             /\ ~accounts[u].email_verified
             /\ Login(u, TRUE))
            => /\ response'.code = 200
               /\ C23_AsksToVerify(response'.msg)
               /\ auth' = auth

C23_UnverifiedUserCannotLogIn == [][C23_Step]_vars

\* The part the code keeps: a user who signed up and did not redeem the link
\* is not logged in by the login form.
C23_PendingStep ==
    response'.view = "login" =>
        \A u \in Accounts :
            (/\ accounts[u].exists
             /\ ~accounts[u].is_active
             /\ \E password_ok \in BOOLEAN : Login(u, password_ok))
            => response'.code = 200 /\ auth' = auth

C23_InactiveUserCannotLogIn == [][C23_PendingStep]_vars

\* C24: redeeming a verification token activates its user (email_verified and
\* is_active true) and marks the token consumed only when the token exists, is
\* not consumed and is not expired; redeeming an unknown, expired or consumed
\* token changes no user and no token, so a token activates at most once.
C24_Redeemable(t) ==
    /\ TokenExists(tokens, t)
    /\ tokens[t].consumed_at = Null
    /\ now < tokens[t].expires_at

C24_Step ==
    response'.view = "verify_email" =>
        \A t \in 0..MaxTokens :
            VerifyEmail(t) =>
                IF C24_Redeemable(t)
                THEN /\ accounts'[tokens[t].user].email_verified
                     /\ accounts'[tokens[t].user].is_active
                     /\ tokens'[t].consumed_at # Null
                     /\ \A u \in Accounts \ {tokens[t].user} : accounts'[u] = accounts[u]
                     /\ \A t2 \in DOMAIN tokens \ {t} : tokens'[t2] = tokens[t2]
                ELSE accounts' = accounts /\ tokens' = tokens

\* A consumed token stays consumed.
C24_StaysConsumed ==
    \A t \in DOMAIN tokens :
        tokens[t].consumed_at # Null =>
            t \in DOMAIN tokens' /\ tokens'[t].consumed_at = tokens[t].consumed_at

C24_TokenActivatesAtMostOnce == [][C24_Step /\ C24_StaysConsumed]_vars

\* A redeemed token was presented again.
C24_Witness ==
    /\ response.view = "verify_email"
    /\ response.msg = "This email address has already been confirmed."
    /\ \E t \in DOMAIN tokens :
          /\ tokens[t].consumed_at # Null
          /\ accounts[tokens[t].user].email_verified
          /\ accounts[tokens[t].user].is_active

\* An expired token was presented and its user stays inactive.
C24_ExpiredWitness ==
    /\ response.view = "verify_email"
    /\ response.msg = "That verification link has expired. Request a new one below."
    /\ \E t \in DOMAIN tokens :
          /\ tokens[t].consumed_at = Null
          /\ now >= tokens[t].expires_at
          /\ ~accounts[tokens[t].user].is_active

\* C25: for an order with one item of a farmer who configured no accepted
\* payment methods and one item of a second farmer who accepts exactly
\* [stripe], the payment initiation form offers exactly stripe and paypal, in
\* that order.
C25_Case ==
    /\ response.view = "payment_init" /\ response.code = 200
    /\ FarmersOfOrder(items, response.order) = {"f1", "f2"}
    /\ accepted_payment_methods["f1"] = <<>>
    /\ accepted_payment_methods["f2"] = <<"stripe">>

C26_NoStaleTotalAfterConcurrentSaves ==
    (\A r \in Requests : Idle(r)) =>
        \A o \in DOMAIN orders :
            orders[o].total_amount = SumLineTotals(ItemsOfOrder(items, o))

\* C27: every order that is pending or confirmed has exactly one Delivery; the
\* Delivery is created with status pending, assigned to the farmer of the
\* order's first line item (to nobody when the order has no items), by the
\* save that puts the order in that status; no later save of the order makes
\* a second Delivery or changes the existing one.
C27_DeliveriesOf(dels, o) == {d \in dels : d.order = o}

C27_ExactlyOne ==
    \A o \in DOMAIN orders :
        /\ Cardinality(C27_DeliveriesOf(deliveries, o)) <= 1
        /\ orders[o].status \in {"pending", "confirmed"}
              => Cardinality(C27_DeliveriesOf(deliveries, o)) = 1

C27_FirstFarmer(o) ==
    IF ItemsOfOrder(items, o) # <<>>
    THEN products[Head(ItemsOfOrder(items, o)).product].farmer
    ELSE NoUser

C27_Step ==
    \A o \in DOMAIN orders' :
        IF C27_DeliveriesOf(deliveries, o) = {}
        THEN \A d \in C27_DeliveriesOf(deliveries', o) :
                /\ d.status = "pending"
                /\ d.assigned_farmer = C27_FirstFarmer(o)
                /\ orders'[o].status \in {"pending", "confirmed"}
                /\ o \in DOMAIN orders => orders[o].status \notin {"pending", "confirmed"}
        ELSE response'.view # "delivery_update"
                => C27_DeliveriesOf(deliveries', o) = C27_DeliveriesOf(deliveries, o)

C27_UnassignedWitness ==
    \E d \in deliveries :
        /\ d.assigned_farmer = NoUser
        /\ orders[d.order].status = "pending"

\* C28: the customer's operations (add-to-cart, checkout, payment initiation,
\* cancel) and the payment success callback never move an order's status
\* backward along cart, pending, confirmed, shipped, delivered, and never
\* change the status of an order that is shipped, delivered or cancelled.
C28_Rank(status) ==
    CASE status = "cart" -> 0
      [] status = "pending" -> 1
      [] status = "confirmed" -> 2
      [] status = "shipped" -> 3
      [] status = "delivered" -> 4
      [] OTHER -> 5

C28_Step ==
    \A o \in DOMAIN orders :
        /\ o \in DOMAIN orders'
        /\ orders[o].status \in {"shipped", "delivered", "cancelled"}
              => orders'[o].status = orders[o].status
        /\ orders'[o].status # "cancelled"
              => C28_Rank(orders'[o].status) >= C28_Rank(orders[o].status)

C28_StatusNeverMovesBackward == [][C28_Step]_vars

\* The same for the requests of customers and of the gateway, among the
\* requests of every role.
C28_CustomerViews ==
    {"add_to_cart", "checkout", "payment_init", "cancel", "webhook"}

C28_StatusNeverMovesBackwardOneAtATime ==
    [][response'.view \in C28_CustomerViews => C28_Step]_vars

\* C29: once an order has left cart status through checkout, no add-to-cart
\* operation changes its line items or its total_amount, also not a request
\* that resolved the cart before the checkout and saves its item after it; the
\* order's total_amount stays the amount of the Payment created at checkout.
C29_Step ==
    \A o \in DOMAIN orders :
        orders[o].status # "cart" =>
            /\ items'[o] = items[o]
            /\ orders'[o].total_amount = orders[o].total_amount

C29_TotalIsPaymentAmount ==
    \A p \in DOMAIN payments :
        orders[payments[p].order].total_amount = payments[p].amount

C29_PlacedOrderIsFrozen == []C29_TotalIsPaymentAmount /\ [][C29_Step]_vars

\* C30: a cart is checked out at most once: checkout submissions for one cart,
\* one after another or at once, create one Payment row and one "Checkout
\* completed" audit entry for the order in total.
C30_PaymentsOf(o) == {p \in DOMAIN payments : payments[p].order = o}

C30_CheckoutEntriesOf(o) ==
    {i \in DOMAIN audit :
        audit[i].action = "Checkout completed" /\ audit[i].object_id = o}

C30_CartCheckedOutOnce ==
    \A o \in DOMAIN orders :
        /\ Cardinality(C30_PaymentsOf(o)) <= 1
        /\ Cardinality(C30_CheckoutEntriesOf(o)) <= 1
        /\ orders[o].status # "cart" =>
              /\ Cardinality(C30_PaymentsOf(o)) = 1
              /\ Cardinality(C30_CheckoutEntriesOf(o)) = 1
====
